---- MODULE Spec2Model ----
(***************************************************************************)
(* BeatCLI: the playback actor (audio_thread / handle_command) over the    *)
(* Playlist and the Player.                                                *)
(*                                                                         *)
(* Only the playback actor writes the Playlist and the Player, so each     *)
(* command handler and each tick is one atomic step over them.  What the   *)
(* file system answers (does the path exist, does the file decode, which   *)
(* files a folder scan finds, is there a lyric sidecar) is an input of the *)
(* step that asks.                                                         *)
(*                                                                         *)
(* The specifications share the handlers and differ in what is typed and   *)
(* in what is followed:                                                    *)
(*   Spec        folder, play, next, prev, mode and unknown lines, the     *)
(*               tick; the clock stands still                              *)
(*   SpecPlayer  play, next, pause, resume and the tick on a scanned list, *)
(*               with the clock advancing                                  *)
(*   SpecVolume  folder, play, next, prev, volume, now, search and unknown *)
(*               lines, the tick's advance                                 *)
(*   SpecLyrics  load_from_path and current_line_index on their own        *)
(*   SpecRender  a playing track with lyrics: the lyric commands, the tick *)
(*               and the render thread handling each event in turn         *)
(*   SpecParse   load_from_path reading one line of an .lrc file           *)
(*   SpecThreads the input, playback and render threads at the grain of    *)
(*               their locks, channels and I/O calls                       *)
(*   SpecFinish  folder, play and mode lines until the user stops typing,  *)
(*               the backend finishing a track and the fair tick           *)
(*   SpecView    the render thread behind track changes, mode changes and  *)
(*               rescans                                                   *)
(*   SpecPeek    the callers of peek_next_name on a scanned list           *)
(***************************************************************************)
EXTENDS Integers, Sequences, FiniteSets, TLC

\* Number of audio files the music folder can hold.
MaxFiles == 3

\* Option::None of an Option<usize> (indices are 0-based, as in the code).
None == -1

\* Paths of audio files; a path is also its own file name.
Paths == 1..MaxFiles
NoPath == 0

Modes == {"Sequential", "RepeatOne", "Shuffle"}

\* What opening and decoding an audio file can answer.
FileStates == {"ok", "missing", "corrupt"}

\* The clock (Instant::now) runs from 0 to MaxTime.
MaxTime == 4

\* Volume when none was set: `volume.unwrap_or(50)`.
DefaultVolume == 50

\* The numbers typed after `volume`.
VolumeArgs == {-5, 0, 80, 100, 150}

\* Lyric timestamps run from 0 to MaxTs; a lyric file has up to MaxLines
\* timed lines.
MaxTs == 3
MaxLines == 3

\* The playback actor makes up to MaxChanges state changes; the event channel
\* holds up to MaxQueue events.
MaxChanges == 3
MaxQueue == 4

\* In a lyric tag the minutes and the seconds have up to MaxDigits digits, the
\* fraction up to MaxFracDigits; the unsigned integers have WidthBits bits.
MaxDigits == 2
MaxFracDigits == 4
WidthBits == 20

\* Where the three threads are followed at the grain of their locks, each
\* channel holds up to MaxPending messages.
MaxPending == 1

VARIABLES
    items,      \* Playlist.items: sequence of paths
    current,    \* Playlist.current: None or a 0-based index
    mode,       \* Playlist.mode
    sink,       \* Player.sink: [some, track, st]
    blocked,    \* the playback actor waits for a lock it holds itself
    emitted,    \* the events the last step sent on event_tx, in order
    last,       \* the last step: [op, line, ret, cur0, io, tgt]
    advStart,   \* current index before the first of a run of advance_on_finished
    advRun,     \* indices returned by that run, no command in between
    walked,     \* what the last successful folder walk found
    now,        \* the clock: Instant::now()
    timing,     \* Player.started_at, paused_at, elapsed_pause
    played,     \* time the sink has spent playing the loaded track
    sink_volume,\* the volume last set on the sink, in percent (None: no sink)
    volume,     \* UiState.volume: None or 0..100
    lyrics,     \* Lyrics.lines: the timestamps of the lines, in order
    millis,     \* the position current_line_index was last asked for
    line_idx,   \* what it returned (None: not asked since the document was loaded)
    queue,      \* the event channel: events sent and not yet received, in order
    ui,         \* UiState, as far as the render actor's branches read it
    ui_pc,      \* where ui_thread is: at recv, or before its refresh_ui_now
    screen,     \* what the last step of ui_thread wrote to the terminal
    tick_idx,   \* the tick between its lyric-line check and its write (else None)
    change,     \* number of state changes the playback actor has made
    redraws,    \* per state change, how often its events repainted the screen
    shown,      \* how often the pending flash message was displayed
    reported,   \* the lyric line index the tick reported last (None: none yet)
    pc,         \* per thread: the handler it is in, the steps left, I/O in progress
    held,       \* per thread: the locks it holds, in the order it took them
    cmds,       \* the command channel: commands sent and not yet received
    exited,     \* main has returned: the process is gone
    typing,     \* the user has not stopped typing commands
    lrc_line,   \* the line of a lyric file read last
    stamp       \* what became of it: outcome and timestamp

\* The Player's clock-keeping and the lyric document.
playerVars == <<now, timing, played>>
lyricVars == <<lyrics, millis, line_idx>>
\* The render actor, its channel and what it draws.
renderVars == <<queue, ui, ui_pc, screen, tick_idx, change, redraws, shown,
                reported>>
\* The threads at the grain of their locks, and the lyric-file reader.
threadVars == <<pc, held, cmds, exited, typing>>
parseVars == <<lrc_line, stamp>>
\* The Playlist, the Player's sink and the playback actor's history.
actorVars == <<items, current, mode, sink, blocked, emitted, last, advStart,
               advRun, walked, sink_volume, volume>>

vars == <<items, current, mode, sink, blocked, emitted, last, advStart, advRun,
          walked, now, timing, played, sink_volume, volume,
          lyrics, millis, line_idx,
          queue, ui, ui_pc, screen, tick_idx, change, redraws, shown, reported,
          pc, held, cmds, exited, typing, lrc_line, stamp>>

----------------------------------------------------------------------------
(* Input lines and parse_command                                           *)

\* ak: kind of the first argument ("none", "num", "word"); n: its value when
\* numeric; w: its text when a word.
Line(kw, ak, n, w) == [kw |-> kw, ak |-> ak, n |-> n, w |-> w]
NoLine == Line("", "none", 0, "")

Lines ==
    {Line("play", "none", 0, "")}
    \cup {Line("play", "num", k, "") : k \in 0..(MaxFiles + 1)}
    \cup {Line("play", "word", 0, "abc")}
    \cup {Line("folder", "none", 0, ""), Line("folder", "word", 0, "music")}
    \cup {Line(k, "none", 0, "") : k \in {"next", "prev", "pause", "resume", "bogus"}}
    \cup {Line("mode", "none", 0, "")}
    \cup {Line("mode", "word", 0, w) : w \in {"sequential", "repeatone", "shuffle", "loud"}}

\* The lines about the volume, the `now` line and the search lines.
VolumeLines ==
    {Line("volume", "none", 0, "")}
    \cup {Line("volume", "num", v, "") : v \in VolumeArgs}
    \cup {Line("volume", "word", 0, "loud")}
    \cup {Line("now", "none", 0, "")}
    \cup {Line("search", "none", 0, ""), Line("search", "word", 0, "abc")}

\* The lines about the lyric display.
LyricLines == {Line("lyrics", "none", 0, ""), Line("lmode", "none", 0, "")}

\* c: the Command; i: its number; m: its mode, or the text of an Unknown
Cmd(c, i, m) == [c |-> c, i |-> i, m |-> m]

ParsePlayNoZeroCheck(line) ==
    IF line.ak = "none" THEN Cmd("PlayIndex", 1, "")
    ELSE IF line.ak = "num" THEN Cmd("PlayIndex", line.n, "")
    ELSE Cmd("Unknown", 0, "")

\* command.rs "play": no argument is PlayIndex(1), 0 and a non-number are Unknown
ParsePlay(line) ==
    IF line.ak = "none" THEN Cmd("PlayIndex", 1, "")
    ELSE IF line.ak = "num"
         THEN IF line.n = 0 THEN Cmd("Unknown", 0, "")
              ELSE Cmd("PlayIndex", line.n, "")
    ELSE Cmd("Unknown", 0, "")

ParseMode(line) ==
    IF line.ak = "word" /\ line.w = "sequential" THEN Cmd("Mode", 0, "Sequential")
    ELSE IF line.ak = "word" /\ line.w = "repeatone" THEN Cmd("Mode", 0, "RepeatOne")
    ELSE IF line.ak = "word" /\ line.w = "shuffle" THEN Cmd("Mode", 0, "Shuffle")
    ELSE Cmd("Unknown", 0, "")

\* `vv.clamp(0, 100)`
Clamp(v) == IF v < 0 THEN 0 ELSE IF v > 100 THEN 100 ELSE v

ParseVolumeNoRangeCheck(line) ==
    IF line.ak = "none" THEN Cmd("Unknown", 0, "volume_needs_value")
    ELSE IF line.ak = "num" THEN Cmd("Volume", Clamp(line.n), "")
    ELSE Cmd("Unknown", 0, "volume_not_a_number")

\* command.rs "volume": a number outside 0..100, a non-number and no argument
\* are Unknown
ParseVolume(line) ==
    IF line.ak = "none" THEN Cmd("Unknown", 0, "volume_needs_value")
    ELSE IF line.ak = "num"
         THEN IF line.n < 0 \/ line.n > 100 THEN Cmd("Unknown", 0, "volume_out_of_range")
              ELSE Cmd("Volume", Clamp(line.n), "")
    ELSE Cmd("Unknown", 0, "volume_not_a_number")

ParseCommand(line) ==
    CASE line.kw = "folder" ->
            IF line.ak = "none" THEN Cmd("Unknown", 0, "") ELSE Cmd("Folder", 0, "")
      [] line.kw = "play" -> ParsePlay(line)
      [] line.kw = "pause" -> Cmd("Pause", 0, "")
      [] line.kw = "resume" -> Cmd("Resume", 0, "")
      [] line.kw = "next" -> Cmd("Next", 0, "")
      [] line.kw = "prev" -> Cmd("Prev", 0, "")
      [] line.kw = "mode" -> ParseMode(line)
      [] line.kw = "volume" -> ParseVolume(line)
      [] line.kw = "now" -> Cmd("Now", 0, "")
      [] line.kw = "lyrics" -> Cmd("Lyrics", 0, "")
      [] line.kw = "lmode" -> Cmd("LyricsMode", 0, "")
      [] line.kw = "search" ->
            IF line.ak = "none" THEN Cmd("Unknown", 0, "search_needs_keyword")
            ELSE Cmd("Search", 0, "")
      [] OTHER -> Cmd("Unknown", 0, "")

----------------------------------------------------------------------------
(* Events sent to the render actor                                         *)

\* ms: the position of an UpdateProgress; vol, len: the volume and the list
\* length a message's text shows
Event(ev, msg, level, idx, name, next, lyr, ms, vol, len) ==
    [ev |-> ev, msg |-> msg, level |-> level, idx |-> idx, name |-> name,
     next |-> next, lyr |-> lyr, ms |-> ms, vol |-> vol, len |-> len]
ShowMessage(msg, level, name) ==
    Event("ShowMessage", msg, level, None, name, NoPath, FALSE, 0, None, 0)
UpdatePlayingState(idx, name, next) ==
    Event("UpdatePlayingState", "", "", idx, name, next, FALSE, 0, None, 0)
UpdateLyrics(lyr) ==
    Event("UpdateLyrics", "", "", None, NoPath, NoPath, lyr, 0, None, 0)
UpdateProgress(ms) ==
    Event("UpdateProgress", "", "", None, NoPath, NoPath, FALSE, ms, None, 0)
\* show_now_playing's snapshot: the name, the index and the length of the
\* list, the volume
NowPlayingInfo(idx, name, len, vol) ==
    Event("ShowMessage", "now_playing_info", "Info", idx, name, NoPath, FALSE, 0, vol, len)
\* the answer to an accepted volume command
VolumeSet(vol) ==
    Event("ShowMessage", "volume_set", "Ok", None, NoPath, NoPath, FALSE, 0, vol, 0)
RefreshUI == Event("RefreshUI", "", "", None, NoPath, NoPath, FALSE, 0, None, 0)

----------------------------------------------------------------------------
(* Playlist (playlist.rs).  A function that draws at random is the set of  *)
(* the values it can return.                                               *)

Name(path) == path

\* What WalkDir can find: the folder's audio files that exist, in walk order.
ScanResults ==
    {s \in UNION {[1..n -> Paths] : n \in 0..MaxFiles} :
        \A i \in 1..Len(s), j \in 1..Len(s) : i < j => s[i] < s[j]}

Playlist(its, cur, md) == [items |-> its, current |-> cur, mode |-> md]

ScanFolderAppends(pl, found) == Playlist(pl.items \o found, None, "Sequential")

ScanFolderKeepCurrent(pl, found) == Playlist(found, pl.current, "Sequential")

\* scan_folder: clears the list, the current index and the mode, then
\* pushes what the walk finds
ScanFolder(pl, found) == Playlist(found, None, "Sequential")

\* items.get(idx)
Get(its, idx) == IF idx >= 0 /\ idx < Len(its) THEN its[idx + 1] ELSE NoPath

NextIndexStepNoWrap(its, cur, md) ==
    IF Len(its) = 0 THEN {None}
    ELSE CASE md = "Sequential" ->
                LET i == IF cur = None THEN 0 ELSE cur
                IN  {IF i + 1 < Len(its) THEN i + 1 ELSE i}
           [] md = "RepeatOne" -> {cur}
           [] md = "Shuffle" ->
                LET choices == {x \in 0..(Len(its) - 1) : cur = None \/ x # cur}
                IN  IF choices # {} THEN choices ELSE {cur}

NextIndexStepNoExclude(its, cur, md) ==
    IF Len(its) = 0 THEN {None}
    ELSE CASE md = "Sequential" ->
                LET i == IF cur = None THEN 0 ELSE cur
                IN  {(i + 1) % Len(its)}
           [] md = "RepeatOne" -> {cur}
           [] md = "Shuffle" -> 0..(Len(its) - 1)

\* next_index_step (and next_index, which only calls it)
NextIndexStep(its, cur, md) ==
    IF Len(its) = 0 THEN {None}
    ELSE CASE md = "Sequential" ->
                LET i == IF cur = None THEN 0 ELSE cur
                IN  {(i + 1) % Len(its)}
           [] md = "RepeatOne" -> {cur}
           [] md = "Shuffle" ->
                LET choices == {x \in 0..(Len(its) - 1) : cur = None \/ x # cur}
                IN  IF choices # {} THEN choices ELSE {cur}

\* prev_index
PrevIndex(its, cur, md) ==
    IF Len(its) = 0 THEN {None}
    ELSE CASE md \in {"Sequential", "RepeatOne"} ->
                LET i == IF cur = None THEN 0 ELSE cur
                IN  {IF i = 0 THEN Len(its) - 1 ELSE i - 1}
           [] md = "Shuffle" -> NextIndexStep(its, cur, md)

\* What advance_on_finished returns (ret) and leaves as current (cur).
Adv(ret, cur) == [ret |-> ret, cur |-> cur]

AdvanceOnFinishedNoWrap(its, cur, md) ==
    IF Len(its) = 0 THEN {Adv(None, cur)}
    ELSE CASE md = "Sequential" ->
                LET next == IF cur = None THEN 0
                            ELSE IF cur + 1 < Len(its) THEN cur + 1 ELSE cur
                IN  {Adv(next, next)}
           [] md = "RepeatOne" -> {Adv(cur, cur)}
           [] md = "Shuffle" ->
                LET choices == {x \in 0..(Len(its) - 1) : cur = None \/ x # cur}
                    picks == IF choices # {} THEN choices ELSE {cur}
                IN  {IF n = None THEN Adv(None, cur) ELSE Adv(n, n) : n \in picks}

AdvanceOnFinishedRepeatAdvances(its, cur, md) ==
    IF Len(its) = 0 THEN {Adv(None, cur)}
    ELSE CASE md \in {"Sequential", "RepeatOne"} ->
                LET next == IF cur = None THEN 0 ELSE (cur + 1) % Len(its)
                IN  {Adv(next, next)}
           [] md = "Shuffle" ->
                LET choices == {x \in 0..(Len(its) - 1) : cur = None \/ x # cur}
                    picks == IF choices # {} THEN choices ELSE {cur}
                IN  {IF n = None THEN Adv(None, cur) ELSE Adv(n, n) : n \in picks}

\* advance_on_finished
AdvanceOnFinished(its, cur, md) ==
    IF Len(its) = 0 THEN {Adv(None, cur)}
    ELSE CASE md = "Sequential" ->
                LET next == IF cur = None THEN 0 ELSE (cur + 1) % Len(its)
                IN  {Adv(next, next)}
           [] md = "RepeatOne" -> {Adv(cur, cur)}
           [] md = "Shuffle" ->
                LET choices == {x \in 0..(Len(its) - 1) : cur = None \/ x # cur}
                    picks == IF choices # {} THEN choices ELSE {cur}
                IN  {IF n = None THEN Adv(None, cur) ELSE Adv(n, n) : n \in picks}

PeekNextNameSequential(its, cur, md) ==
    IF Len(its) = 0 THEN {NoPath}
    ELSE {IF n = None THEN NoPath ELSE Name(Get(its, n)) :
            n \in NextIndexStep(its, cur, "Sequential")}

\* peek_next_name: the names it can return ("" is NoPath)
PeekNextName(its, cur, md) ==
    IF Len(its) = 0 THEN {NoPath}
    ELSE {IF n = None THEN NoPath ELSE Name(Get(its, n)) : n \in NextIndexStep(its, cur, md)}

----------------------------------------------------------------------------
(* Player (player.rs): the sink.  st is "playing", "paused" or "empty"     *)
(* (the sink's queue is empty: the track ended or the sink was stopped).   *)

Sink(some, track, st) == [some |-> some, track |-> track, st |-> st]
NoSink == Sink(FALSE, NoPath, "none")

\* play_file: stops the sink there is, then opens and decodes the file; when
\* either fails it returns, leaving the stopped sink in place
PlayFile(snk, path, io) ==
    IF io = "ok" THEN Sink(TRUE, path, "playing")
    ELSE IF snk.some THEN Sink(TRUE, NoPath, "empty")
    ELSE snk

\* pause / resume, as far as the sink goes
Pause(snk) == IF snk.some /\ snk.st = "playing" THEN [snk EXCEPT !.st = "paused"] ELSE snk
Resume(snk) == IF snk.some /\ snk.st = "paused" THEN [snk EXCEPT !.st = "playing"] ELSE snk

\* finished
Finished(snk) == snk.some /\ snk.st = "empty"

\* started_at, paused_at (None or an instant) and elapsed_pause (a duration)
Timing(st, pa, ep) == [started_at |-> st, paused_at |-> pa, elapsed_pause |-> ep]

\* Player::new
NoTiming == Timing(None, None, 0)

PlayFileTimingKeepsElapsedPause(tm, io, t) ==
    IF io = "ok" THEN Timing(t, None, tm.elapsed_pause) ELSE tm

PlayFileTimingKeepsPausedAt(tm, io, t) ==
    IF io = "ok" THEN Timing(t, tm.paused_at, 0) ELSE tm

\* play_file, the clock-keeping: written only once the file has decoded
PlayFileTiming(tm, io, t) == IF io = "ok" THEN Timing(t, None, 0) ELSE tm

PauseTimingAlways(tm, t) == [tm EXCEPT !.paused_at = t]

\* pause, the clock-keeping: `if self.paused_at.is_none()`
PauseTiming(tm, t) == IF tm.paused_at = None THEN [tm EXCEPT !.paused_at = t] ELSE tm

\* resume, the clock-keeping: `if let Some(paused_time) = self.paused_at`
ResumeTiming(tm, t) ==
    IF tm.paused_at # None
    THEN Timing(tm.started_at, None, tm.elapsed_pause + (t - tm.paused_at))
    ELSE tm

\* Instant::duration_since saturates at zero
DurationSince(later, earlier) == IF later >= earlier THEN later - earlier ELSE 0

\* get_current_ms before the conversion to u128: a negative value is the
\* Duration subtraction overflowing, which panics
ElapsedRaw(tm, t) ==
    IF tm.started_at # None
    THEN IF tm.paused_at # None
         THEN DurationSince(tm.paused_at, tm.started_at) - tm.elapsed_pause
         ELSE DurationSince(t, tm.started_at) - tm.elapsed_pause
    ELSE 0

GetCurrentMsPanics(tm, t) == ElapsedRaw(tm, t) < 0

\* get_current_ms
GetCurrentMs(tm, t) == ElapsedRaw(tm, t)

\* set_volume after play_file: on the sink there is, if any
SetVolume(snk, old, v) == IF snk.some THEN v ELSE old

VolumeOrDefaultForgets(v) == DefaultVolume

\* `volume.unwrap_or(50)`
VolumeOrDefault(v) == IF v = None THEN DefaultVolume ELSE v

----------------------------------------------------------------------------
(* Lyrics (lyrics.rs).  A document is the sequence of its lines'           *)
(* timestamps; a line's text plays no part in finding the current line.    *)

\* The timed lines of a lyric file, in file order.
RawDocs == UNION {[1..n -> 0..MaxTs] : n \in 0..MaxLines}

\* The positions current_line_index is asked for.
Positions == 0..(MaxTs + 1)

RECURSIVE InsertByKey(_, _)
\* sort_by_key is stable: a line goes after the lines whose key is not greater
InsertByKey(sorted, ts) ==
    IF sorted = <<>> THEN <<ts>>
    ELSE IF sorted[Len(sorted)] <= ts THEN Append(sorted, ts)
    ELSE Append(InsertByKey(SubSeq(sorted, 1, Len(sorted) - 1), ts), sorted[Len(sorted)])

RECURSIVE SortByKey(_)
\* `lines.sort_by_key(|(ms, _)| *ms)`
SortByKey(raw) ==
    IF raw = <<>> THEN <<>>
    ELSE InsertByKey(SortByKey(SubSeq(raw, 1, Len(raw) - 1)), raw[Len(raw)])

\* load_from_path: the timed lines are pushed in file order, then sorted
LoadFromPath(raw) == SortByKey(raw)

CurrentLineIndexFirst(lines, ms) ==
    LET hits == {i \in 1..Len(lines) : lines[i] <= ms}
    IN  IF hits = {} THEN 0
        ELSE (CHOOSE i \in hits : \A j \in hits : i <= j) - 1

CurrentLineIndexFlipped(lines, ms) ==
    LET hits == {i \in 1..Len(lines) : lines[i] >= ms}
    IN  IF hits = {} THEN 0
        ELSE (CHOOSE i \in hits : \A j \in hits : j <= i) - 1

\* current_line_index: rfind takes the last line whose timestamp is not after
\* the position, unwrap_or(0) answers 0 when there is none (0-based)
CurrentLineIndex(lines, ms) ==
    LET hits == {i \in 1..Len(lines) : lines[i] <= ms}
    IN  IF hits = {} THEN 0
        ELSE (CHOOSE i \in hits : \A j \in hits : j <= i) - 1

----------------------------------------------------------------------------
(* Reading a lyric file line by line (lyrics.rs): parse_timestamp and the  *)
(* line loop of load_from_path.  A piece of a tag is kept as its digits;   *)
(* u128 is kept at WidthBits bits.                                         *)

Width == 2 ^ WidthBits

\* A piece of a tag between '[', ':', '.' and ']': whether a '+' leads it, its
\* digits, whether it holds a character that is no digit
Token(sign, digits, junk) == [sign |-> sign, digits |-> digits, junk |-> junk]
EmptyToken == Token(FALSE, <<>>, FALSE)

\* The digit strings of up to n digits over ds
DigitStrings(ds, n) == UNION {[1..k -> ds] : k \in 0..n}

\* Minutes and seconds as typed: digit strings, or not a number
Pieces == {Token(FALSE, d, FALSE) : d \in DigitStrings({0, 1, 9}, MaxDigits)}
          \cup {Token(FALSE, <<>>, TRUE)}

\* Fractions as typed: digit strings, `+5`, or not a number
FracPieces == {Token(FALSE, d, FALSE) : d \in DigitStrings({0, 5}, MaxFracDigits)}
              \cup {Token(TRUE, <<5>>, FALSE), Token(FALSE, <<>>, TRUE)}

\* The text between '[' and ']': colon, dot say whether the separator is there
Tag(mm, colon, ss, dot, frac) ==
    [mm |-> mm, colon |-> colon, ss |-> ss, dot |-> dot, frac |-> frac]

Tags ==
    {Tag(mm, FALSE, EmptyToken, FALSE, EmptyToken) : mm \in Pieces}
    \cup {Tag(mm, TRUE, ss, FALSE, EmptyToken) : mm \in Pieces, ss \in Pieces}
    \cup {Tag(mm, TRUE, ss, TRUE, fr) : mm \in Pieces, ss \in Pieces, fr \in FracPieces}

\* A trimmed, non-empty line of the file: tagged says whether it starts with
\* '[' and holds a ']'; text is what follows the ']', trimmed
LrcLine(tagged, tag, text) == [tagged |-> tagged, tag |-> tag, text |-> text]
NoLrcLine == LrcLine(FALSE, Tag(EmptyToken, FALSE, EmptyToken, FALSE, EmptyToken), "")

LrcLines ==
    {NoLrcLine} \cup {LrcLine(TRUE, tg, tx) : tg \in Tags, tx \in {"", "Hello"}}

\* The decimal value of a digit string
RECURSIVE DigitsValue(_)
DigitsValue(ds) ==
    IF ds = <<>> THEN 0
    ELSE 10 * DigitsValue(SubSeq(ds, 1, Len(ds) - 1)) + ds[Len(ds)]

\* `parse::<u128>().ok()`: None for the empty string, for a character that is
\* no digit and for a value beyond the type; one leading '+' is accepted
ParseU128(tok) ==
    IF tok.junk \/ tok.digits = <<>> \/ DigitsValue(tok.digits) >= Width THEN None
    ELSE DigitsValue(tok.digits)

\* `frac_str.len()`
StrLen(tok) == Len(tok.digits) + (IF tok.sign THEN 1 ELSE 0)

\* `match frac_str.len() { 1 => frac_num * 100, 2 => frac_num * 10, 3 => frac_num, _ => frac_num }`
ScaleFraction(tok) ==
    CASE StrLen(tok) = 1 -> ParseU128(tok) * 100
      [] StrLen(tok) = 2 -> ParseU128(tok) * 10
      [] OTHER -> ParseU128(tok)

\* What became of a tag or a line: outcome is "timestamp", "not_a_timestamp"
\* or "panic" for a tag, "pushed", "skipped" or "panic" for a line; wrapped
\* says that the arithmetic left the range of the type.  "unread": the line
\* has not been read yet.
Stamp(outcome, ms, text, wrapped) ==
    [outcome |-> outcome, ms |-> ms, text |-> text, wrapped |-> wrapped]
NoStamp == Stamp("unread", 0, "", FALSE)

\* `mm * 60_000 + ss * 1000 + frac` on u128: a build with overflow checks
\* (debug) panics when a product or a sum leaves the type, a build without
\* (release) wraps.  The terms are not negative, so one of them leaves the
\* type exactly when the exact sum does.
Arithmetic(exact, build) ==
    IF exact < Width THEN Stamp("timestamp", exact, "", FALSE)
    ELSE IF build = "debug" THEN Stamp("panic", 0, "", TRUE)
    ELSE Stamp("timestamp", exact % Width, "", TRUE)

\* parse_timestamp
ParseTimestamp(tag, build) ==
    IF ParseU128(tag.mm) = None \/ ~tag.colon \/ ParseU128(tag.ss) = None
    THEN Stamp("not_a_timestamp", 0, "", FALSE)
    ELSE IF tag.dot /\ ParseU128(tag.frac) = None
    THEN Stamp("not_a_timestamp", 0, "", FALSE)
    ELSE Arithmetic(ParseU128(tag.mm) * 60000 + ParseU128(tag.ss) * 1000
                      + (IF tag.dot THEN ScaleFraction(tag.frac) ELSE 0),
                    build)

\* load_from_path, one line of the loop: a tag that is a timestamp pushes
\* (ms, text) when the text is not empty; every other line is skipped
LoadLine(line, build) ==
    IF ~line.tagged THEN Stamp("skipped", 0, "", FALSE)
    ELSE LET ts == ParseTimestamp(line.tag, build)
         IN  IF ts.outcome = "panic" THEN ts
             ELSE IF ts.outcome = "timestamp" /\ line.text # ""
             THEN Stamp("pushed", ts.ms, line.text, ts.wrapped)
             ELSE Stamp("skipped", 0, "", ts.wrapped)

----------------------------------------------------------------------------
(* UiState and Screen (ui.rs).  Of UiState the fields the branches of draw *)
(* and of the tick read: the names, the mode and the cursor rows only      *)
(* change the text that is written.                                        *)

\* Option<(String, FlashLevel)>
Flash(msg, level) == [some |-> TRUE, msg |-> msg, level |-> level]
NoFlash == [some |-> FALSE, msg |-> "", level |-> ""]

\* Option<Lyrics>: the timestamps of the lines
SomeLyrics(lines) == [some |-> TRUE, lines |-> lines]
NoLyrics == [some |-> FALSE, lines |-> <<>>]

\* The lyric files a sidecar can hold: no timed line, or two.
SidecarDocs == {LoadFromPath(<<>>), LoadFromPath(<<2, 0>>)}

\* UiState::default()
DefaultUiState ==
    [show_welcome |-> FALSE, flash |-> NoFlash, now_index |-> None,
     now_name |-> NoPath, next_name |-> NoPath, lyrics |-> NoLyrics, current_ms |-> 0, show_lyrics |-> FALSE,
     current_lyric_line |-> None, playing_ui_active |-> FALSE,
     lyrics_stream_mode |-> FALSE]

SetNowPlaying(u, idx, name, next) ==
    [u EXCEPT !.now_index = idx, !.now_name = name, !.next_name = next,
              !.show_welcome = FALSE, !.show_lyrics = TRUE,
              !.current_lyric_line = None, !.playing_ui_active = TRUE,
              !.lyrics_stream_mode = TRUE]

FlashMessage(u, msg, level) == [u EXCEPT !.flash = Flash(msg, level)]

ToggleLyrics(u) == [u EXCEPT !.show_lyrics = ~u.show_lyrics]

ToggleLyricsMode(u) == [u EXCEPT !.lyrics_stream_mode = ~u.lyrics_stream_mode]

\* What one step of ui_thread wrote: op is what was painted ("none",
\* "welcome", "flash", "window": rows of the lyric window, "interface": the
\* whole playing interface), clear whether Clear(ClearType::All) was issued,
\* msg the flash message printed; by and chg say which step of the playback
\* actor sent the event.
Painted(op, clear, msg) == [op |-> op, clear |-> clear, msg |-> msg]
Screen(pt, by, chg) ==
    [op |-> pt.op, clear |-> pt.clear, msg |-> pt.msg, by |-> by, chg |-> chg]

\* Result of a Screen method: the UiState it leaves and what it painted
Drawn(u, pt) == [ui |-> u, pt |-> pt]

\* draw: `current_idx != old_idx` under `playing_ui_active && show_lyrics`
\* with a non-empty document
LyricLineChanged(u) ==
    /\ u.playing_ui_active
    /\ u.show_lyrics
    /\ u.lyrics.some
    /\ Len(u.lyrics.lines) > 0
    /\ CurrentLineIndex(u.lyrics.lines, u.current_ms) # u.current_lyric_line

DrawKeepsFlash(u) ==
    IF u.show_welcome THEN Drawn(u, Painted("welcome", FALSE, ""))
    ELSE IF u.now_index # None /\ ~u.playing_ui_active
    THEN Drawn([u EXCEPT !.playing_ui_active = TRUE], Painted("interface", TRUE, ""))
    ELSE IF LyricLineChanged(u)
    THEN Drawn([u EXCEPT !.current_lyric_line =
                            CurrentLineIndex(u.lyrics.lines, u.current_ms)],
               IF u.lyrics_stream_mode THEN Painted("window", FALSE, "")
               ELSE Painted("interface", TRUE, ""))
    ELSE IF u.flash.some
    THEN Drawn(u, Painted("flash", FALSE, u.flash.msg))
    ELSE Drawn(u, Painted("none", FALSE, ""))

\* Screen::draw: the welcome page; entering the playing interface; a lyric
\* line change (stream_update_lyrics or a clear and show_playing_interface),
\* which returns before the flash message; the flash message, then cleared.
Draw(u) ==
    IF u.show_welcome THEN Drawn(u, Painted("welcome", FALSE, ""))
    ELSE IF u.now_index # None /\ ~u.playing_ui_active
    THEN Drawn([u EXCEPT !.playing_ui_active = TRUE], Painted("interface", TRUE, ""))
    ELSE IF LyricLineChanged(u)
    THEN Drawn([u EXCEPT !.current_lyric_line =
                            CurrentLineIndex(u.lyrics.lines, u.current_ms)],
               IF u.lyrics_stream_mode THEN Painted("window", FALSE, "")
               ELSE Painted("interface", TRUE, ""))
    ELSE IF u.flash.some
    THEN Drawn([u EXCEPT !.flash = NoFlash], Painted("flash", FALSE, u.flash.msg))
    ELSE Drawn(u, Painted("none", FALSE, ""))

\* Screen::force_refresh_playing_interface: clear, show_playing_interface
ForceRefreshPlayingInterface(u) == Drawn(u, Painted("interface", TRUE, ""))

\* A repaint: the playing interface or rows of the lyric window are rewritten.
Repaints(pt) == pt.op \in {"interface", "window"}

\* ui_thread's position: at recv, or in the ShowMessage arm before
\* refresh_ui_now, with the sender of the event it is handling
UiPc(at, by, chg) == [at |-> at, by |-> by, chg |-> chg]

\* An event in the channel, with the step and the state change that sent it
Sent(e, by, chg) == [e |-> e, by |-> by, chg |-> chg]

\* A step of a thread's handler: take or release a lock, begin an I/O call,
\* send on a channel, return from main, end the thread.
Ins(op, what, e) == [op |-> op, what |-> what, e |-> e]
Lock(l) == Ins("lock", l, RefreshUI)
Unlock(l) == Ins("unlock", l, RefreshUI)
Io(k) == Ins("io", k, RefreshUI)
SendEvent(e) == Ins("send", "event", e)
SendCmd(c) == Ins("send", c, RefreshUI)
Return == Ins("return", "", RefreshUI)
Break == Ins("break", "", RefreshUI)

Shutdown == Event("Shutdown", "", "", None, NoPath, NoPath, FALSE, 0, None, 0)

\* A thread: the handler it is in ("loop": at the top of its loop, "done":
\* ended), the steps left of it, the I/O call in progress ("": none)
Pc(in, todo, io) == [in |-> in, todo |-> todo, io |-> io]

Threads == {"input", "audio", "ui"}

\* The commands typed in the specification of the threads.
TypedCmds == {"Folder", "Mode", "Now", "Quit"}

InitThreads ==
    /\ pc = [t \in Threads |-> Pc("loop", <<>>, "")]
    /\ held = [t \in Threads |-> <<>>]
    /\ cmds = <<>>
    /\ exited = FALSE
    /\ typing = TRUE

InitParse ==
    /\ lrc_line = NoLrcLine
    /\ stamp = NoStamp

InitRender ==
    /\ queue = <<>>
    /\ ui = DefaultUiState
    /\ ui_pc = UiPc("recv", "", 0)
    /\ screen = Screen(Painted("none", FALSE, ""), "", 0)
    /\ tick_idx = None
    /\ change = 0
    /\ redraws = [c \in 0..MaxChanges |-> 0]
    /\ shown = 0
    /\ reported = None

----------------------------------------------------------------------------
(* The playback actor: audio_thread and handle_command (main.rs)           *)

Step(op, line, ret, cur0, io, tgt) ==
    [op |-> op, line |-> line, ret |-> ret, cur0 |-> cur0, io |-> io, tgt |-> tgt]

Init ==
    /\ items = <<>>
    /\ current = None
    /\ mode = "Sequential"
    /\ sink = NoSink
    /\ blocked = FALSE
    /\ emitted = <<>>
    /\ last = Step("Init", NoLine, None, None, "na", None)
    /\ advStart = None
    /\ advRun = <<>>
    /\ walked = <<>>
    /\ now = 0
    /\ timing = NoTiming
    /\ played = 0
    /\ sink_volume = None
    /\ volume = None
    /\ lyrics = <<>>
    /\ millis = 0
    /\ line_idx = None
    /\ InitRender
    /\ InitThreads
    /\ InitParse

\* A command ends a run of natural-completion advances.
EndRun == advStart' = None /\ advRun' = <<>>

\* A handler that only answers: one message, nothing else written.  io is
\* what the file system answered, if it was asked.
AnswerAfter(op, line, io, msg, level, name) ==
    /\ emitted' = <<ShowMessage(msg, level, name)>>
    /\ last' = Step(op, line, None, current, io, None)
    /\ EndRun
    /\ UNCHANGED <<items, current, mode, sink, blocked, walked, playerVars,
                    sink_volume, volume, lyricVars>>

Answer(op, line, msg, level, name) == AnswerAfter(op, line, "na", msg, level, name)

\* check_playlist_empty
CheckPlaylistEmpty == Len(items) = 0

\* is_playing
IsPlaying == current # None

\* `player.play_file(&path)` and the `player.set_volume(vol)` that follows it
PlayAndSetVolume(path, io) ==
    /\ sink' = PlayFile(sink, path, io)
    /\ timing' = PlayFileTiming(timing, io, now)
    /\ played' = IF io = "ok" THEN 0 ELSE played
    /\ sink_volume' = SetVolume(PlayFile(sink, path, io), sink_volume,
                                VolumeOrDefault(volume))
    /\ now' = now

\* play_song(i): io is what the file system answers for the track's file,
\* lyr whether a lyric sidecar is found
PlaySong(op, line, i, io, lyr) ==
    LET path == Get(items, i)
    IN  IF path = NoPath
        THEN /\ emitted' = <<>>
             /\ last' = Step(op, line, None, current, "na", None)
             /\ EndRun
             /\ UNCHANGED <<items, current, mode, sink, blocked, walked, playerVars,
                    sink_volume, volume, lyricVars>>
        ELSE IF io = "missing"
        THEN /\ emitted' = <<ShowMessage("file_missing", "Error", Name(path))>>
             /\ last' = Step(op, line, None, current, io, i)
             /\ EndRun
             /\ UNCHANGED <<items, current, mode, sink, blocked, walked, playerVars,
                    sink_volume, volume, lyricVars>>
        ELSE /\ current' = i
             /\ PlayAndSetVolume(path, io)
             /\ \E nx \in PeekNextName(items, i, mode) :
                    emitted' = <<UpdatePlayingState(i, Name(path), nx),
                                 UpdateLyrics(lyr),
                                 ShowMessage(IF lyr THEN "started_with_lyrics" ELSE "started",
                                             "Ok", Name(path))>>
             /\ last' = Step(op, line, None, current, io, i)
             /\ EndRun
             /\ UNCHANGED <<items, mode, blocked, walked, volume, lyricVars>>

PlayIndexOutOfRangeNever(i, pl_len) == FALSE

\* Command::PlayIndex: `if i > pl_len`
PlayIndexOutOfRange(i, pl_len) == i > pl_len

\* Command::PlayIndex: the conversion to a 0-based index
PlayIndexTarget(i, pl_len) == IF i > 0 /\ i <= pl_len THEN i - 1 ELSE 0

HandlePlayIndex(line, i) ==
    LET pl_len == Len(items)
    IN  IF pl_len = 0
        THEN Answer("PlayIndex", line, "empty_playlist", "Error", NoPath)
        ELSE IF PlayIndexOutOfRange(i, pl_len)
        THEN Answer("PlayIndex", line, "index_out_of_range", "Error", NoPath)
        ELSE \E io \in FileStates, lyr \in BOOLEAN :
                PlaySong("PlayIndex", line, PlayIndexTarget(i, pl_len), io, lyr)

CmdPlayIndex ==
    /\ UNCHANGED <<renderVars, threadVars, parseVars>>
    /\ ~blocked
    /\ \E line \in Lines :
        /\ ParseCommand(line).c = "PlayIndex"
        /\ HandlePlayIndex(line, ParseCommand(line).i)

\* Command::Folder: pk is what the path is ("absent", "file", "dir"), found
\* what the walk finds
HandleFolder(line, pk) ==
    IF pk = "absent"
    THEN AnswerAfter("Folder", line, pk, "path_not_exist", "Error", NoPath)
    ELSE IF pk = "file"
    THEN AnswerAfter("Folder", line, pk, "path_not_dir", "Error", NoPath)
    ELSE \E found \in ScanResults :
         LET pl == ScanFolder(Playlist(items, current, mode), found)
         IN  /\ items' = pl.items
             /\ current' = pl.current
             /\ mode' = pl.mode
             /\ walked' = found
             /\ emitted' = <<IF Len(pl.items) = 0
                             THEN ShowMessage("no_audio_found", "Info", NoPath)
                             ELSE ShowMessage("scanned", "Ok", NoPath)>>
             /\ last' = Step("Folder", line, None, current, pk, None)
             /\ EndRun
             /\ UNCHANGED <<sink, blocked, playerVars, sink_volume, volume, lyricVars>>

CmdFolder ==
    /\ UNCHANGED <<renderVars, threadVars, parseVars>>
    /\ ~blocked
    /\ \E line \in Lines, pk \in {"absent", "file", "dir"} :
        /\ ParseCommand(line).c = "Folder"
        /\ HandleFolder(line, pk)

\* next_song.  When next_index returns None the else branch locks the
\* playlist while `pl` still holds that lock: the actor waits for itself.
NextSong(line) ==
    IF Len(items) = 1
    THEN Answer("Next", line, "single_song_next", "Info", NoPath)
    ELSE \E r \in NextIndexStep(items, current, mode) :
            IF r # None
            THEN \E io \in FileStates, lyr \in BOOLEAN :
                 LET path == Get(items, r)
                 IN  /\ current' = r
                     /\ PlayAndSetVolume(path, io)
                     /\ \E nx \in PeekNextName(items, r, mode) :
                            emitted' = <<UpdatePlayingState(r, Name(path), nx),
                                         UpdateLyrics(lyr),
                                         ShowMessage("switched_next", "Ok", Name(path))>>
                     /\ last' = Step("Next", line, r, current, io, r)
                     /\ EndRun
                     /\ UNCHANGED <<items, mode, blocked, walked, volume, lyricVars>>
            ELSE /\ blocked' = TRUE
                 /\ emitted' = <<>>
                 /\ last' = Step("Next", line, r, current, "na", None)
                 /\ EndRun
                 /\ UNCHANGED <<items, current, mode, sink, walked, playerVars,
                              sink_volume, volume, lyricVars>>

CmdNext ==
    /\ UNCHANGED <<renderVars, threadVars, parseVars>>
    /\ ~blocked
    /\ \E line \in Lines :
        /\ ParseCommand(line).c = "Next"
        /\ IF CheckPlaylistEmpty
           THEN Answer("Next", line, "empty_playlist", "Error", NoPath)
           ELSE NextSong(line)

\* prev_song: the lock is dropped before current is written
PrevSong(line) ==
    IF Len(items) = 1
    THEN Answer("Prev", line, "single_song_prev", "Info", NoPath)
    ELSE \E r \in PrevIndex(items, current, mode) :
            IF r # None
            THEN \E io \in FileStates, lyr \in BOOLEAN :
                 LET path == Get(items, r)
                 IN  /\ current' = r
                     /\ PlayAndSetVolume(path, io)
                     /\ \E nx \in PeekNextName(items, r, mode) :
                            emitted' = <<UpdatePlayingState(r, Name(path), nx),
                                         UpdateLyrics(lyr),
                                         ShowMessage("switched_prev", "Ok", Name(path))>>
                     /\ last' = Step("Prev", line, r, current, io, r)
                     /\ EndRun
                     /\ UNCHANGED <<items, mode, blocked, walked, volume, lyricVars>>
            ELSE /\ blocked' = TRUE
                 /\ emitted' = <<>>
                 /\ last' = Step("Prev", line, r, current, "na", None)
                 /\ EndRun
                 /\ UNCHANGED <<items, current, mode, sink, walked, playerVars,
                              sink_volume, volume, lyricVars>>

CmdPrev ==
    /\ UNCHANGED <<renderVars, threadVars, parseVars>>
    /\ ~blocked
    /\ \E line \in Lines :
        /\ ParseCommand(line).c = "Prev"
        /\ IF CheckPlaylistEmpty
           THEN Answer("Prev", line, "empty_playlist", "Error", NoPath)
           ELSE PrevSong(line)

\* Command::Pause
CmdPause ==
    /\ UNCHANGED <<renderVars, threadVars, parseVars>>
    /\ ~blocked
    /\ \E line \in Lines :
        /\ ParseCommand(line).c = "Pause"
        /\ IF CheckPlaylistEmpty
           THEN Answer("Pause", line, "empty_playlist", "Error", NoPath)
           ELSE IF ~IsPlaying
           THEN Answer("Pause", line, "nothing_playing", "Error", NoPath)
           ELSE /\ sink' = Pause(sink)
                /\ timing' = PauseTiming(timing, now)
                /\ emitted' = <<ShowMessage("paused", "Ok", NoPath)>>
                /\ last' = Step("Pause", line, None, current, "na", None)
                /\ EndRun
                /\ UNCHANGED <<items, current, mode, blocked, walked, now, played,
                               sink_volume, volume, lyricVars>>

\* Command::Resume
CmdResume ==
    /\ UNCHANGED <<renderVars, threadVars, parseVars>>
    /\ ~blocked
    /\ \E line \in Lines :
        /\ ParseCommand(line).c = "Resume"
        /\ IF CheckPlaylistEmpty
           THEN Answer("Resume", line, "empty_playlist", "Error", NoPath)
           ELSE IF ~IsPlaying
           THEN Answer("Resume", line, "nothing_playing", "Error", NoPath)
           ELSE /\ sink' = Resume(sink)
                /\ timing' = ResumeTiming(timing, now)
                /\ emitted' = <<ShowMessage("resumed", "Ok", NoPath)>>
                /\ last' = Step("Resume", line, None, current, "na", None)
                /\ EndRun
                /\ UNCHANGED <<items, current, mode, blocked, walked, now, played,
                               sink_volume, volume, lyricVars>>

\* Command::Mode
HandleMode(line) ==
    IF CheckPlaylistEmpty
    THEN Answer("Mode", line, "empty_playlist", "Error", NoPath)
    ELSE IF mode = ParseCommand(line).m
    THEN Answer("Mode", line, "mode_already", "Info", NoPath)
    ELSE /\ mode' = ParseCommand(line).m
         /\ emitted' = <<ShowMessage("mode_switched", "Ok", NoPath)>>
         /\ last' = Step("Mode", line, None, current, "na", None)
         /\ EndRun
         /\ UNCHANGED <<items, current, sink, blocked, walked, playerVars,
                        sink_volume, volume, lyricVars>>

CmdMode ==
    /\ UNCHANGED <<renderVars, threadVars, parseVars>>
    /\ ~blocked
    /\ \E line \in Lines :
        /\ ParseCommand(line).c = "Mode"
        /\ HandleMode(line)

\* Command::Unknown
CmdUnknown ==
    /\ UNCHANGED <<renderVars, threadVars, parseVars>>
    /\ ~blocked
    /\ \E line \in Lines :
        /\ ParseCommand(line).c = "Unknown"
        /\ Answer("Unknown", line, "unknown_command", "Error", NoPath)

\* audio_thread, the 200 ms branch, player.finished()
FinishedAdvance ==
    /\ ~blocked
    /\ Finished(sink)
    /\ \E a \in AdvanceOnFinished(items, current, mode) :
        /\ current' = a.cur
        /\ IF a.ret # None
           THEN \E io \in FileStates, lyr \in BOOLEAN :
                LET path == Get(items, a.ret)
                IN  /\ PlayAndSetVolume(path, io)
                    /\ \E nx \in PeekNextName(items, a.cur, mode) :
                           emitted' = <<UpdatePlayingState(a.ret, Name(path), nx),
                                        UpdateLyrics(lyr),
                                        RefreshUI>>
                    /\ last' = Step("TickFinished", NoLine, a.ret, current, io, a.ret)
                    /\ IF advRun = <<>> \/ Len(advRun) >= Len(items)
                       THEN advStart' = current /\ advRun' = <<a.ret>>
                       ELSE advStart' = advStart /\ advRun' = Append(advRun, a.ret)
           ELSE /\ emitted' = <<>>
                /\ last' = Step("TickFinished", NoLine, a.ret, current, "na", None)
                /\ EndRun
                /\ UNCHANGED <<sink, playerVars, sink_volume>>
    /\ UNCHANGED <<items, mode, blocked, walked, volume, lyricVars>>

TickFinished == FinishedAdvance /\ UNCHANGED <<renderVars, threadVars, parseVars>>

\* audio_thread, the 200 ms branch, the track has not finished: the progress
\* report (the lyric-line check that follows works on UiState alone).  A
\* panic in get_current_ms ends the thread.
ProgressReport ==
    /\ ~blocked
    /\ ~Finished(sink)
    /\ IF GetCurrentMsPanics(timing, now)
       THEN blocked' = TRUE /\ emitted' = <<>>
       ELSE blocked' = blocked /\ emitted' = <<UpdateProgress(GetCurrentMs(timing, now))>>
    /\ last' = Step("TickProgress", NoLine, None, current, "na", None)
    /\ UNCHANGED <<items, current, mode, sink, advStart, advRun, walked, playerVars,
                   sink_volume, volume, lyricVars>>

TickProgress == ProgressReport /\ UNCHANGED <<renderVars, threadVars, parseVars>>

\* The audio backend plays the loaded track to its end.
SinkDrained ==
    /\ UNCHANGED <<renderVars, threadVars, parseVars>>
    /\ sink.some
    /\ sink.st = "playing"
    /\ sink' = Sink(TRUE, NoPath, "empty")
    /\ emitted' = <<>>
    /\ last' = Step("SinkDrained", NoLine, None, current, "na", None)
    /\ UNCHANGED <<items, current, mode, blocked, advStart, advRun, walked,
                   playerVars, sink_volume, volume, lyricVars>>

Next ==
    \/ CmdFolder
    \/ CmdPlayIndex
    \/ CmdNext
    \/ CmdPrev
    \/ CmdMode
    \/ CmdUnknown
    \/ TickFinished
    \/ TickProgress
    \/ SinkDrained

Spec == Init /\ [][Next]_vars

----------------------------------------------------------------------------
(* The Player against the clock.  The run starts after `folder music` has  *)
(* found two files; the clock advances between the actor's steps.          *)

ScannedItems == <<1, 2>>

InitScanned ==
    /\ items = ScannedItems
    /\ current = None
    /\ mode = "Sequential"
    /\ sink = NoSink
    /\ blocked = FALSE
    /\ emitted = <<ShowMessage("scanned", "Ok", NoPath)>>
    /\ last = Step("Folder", Line("folder", "word", 0, "music"), None, None, "dir", None)
    /\ advStart = None
    /\ advRun = <<>>
    /\ walked = ScannedItems
    /\ now = 0
    /\ timing = NoTiming
    /\ played = 0
    /\ sink_volume = None
    /\ volume = None
    /\ lyrics = <<>>
    /\ millis = 0
    /\ line_idx = None
    /\ InitRender
    /\ InitThreads
    /\ InitParse

\* Time passes; a sink that is playing plays on.
Tock ==
    /\ UNCHANGED <<renderVars, threadVars, parseVars>>
    /\ now < MaxTime
    /\ now' = now + 1
    /\ played' = IF sink.some /\ sink.st = "playing" THEN played + 1 ELSE played
    /\ emitted' = <<>>
    /\ last' = Step("Tock", NoLine, None, current, "na", None)
    /\ UNCHANGED <<items, current, mode, sink, blocked, advStart, advRun, walked,
                   timing, sink_volume, volume, lyricVars>>

NextPlayer ==
    \/ CmdPlayIndex
    \/ CmdNext
    \/ CmdPause
    \/ CmdResume
    \/ TickFinished
    \/ TickProgress
    \/ SinkDrained
    \/ Tock

SpecPlayer == InitScanned /\ [][NextPlayer]_vars

----------------------------------------------------------------------------
(* The volume: the volume, `now` and search lines among folder, play, next, *)
(* prev, unknown lines and the tick.                                       *)

\* Command::Volume
CmdVolume ==
    /\ UNCHANGED <<renderVars, threadVars, parseVars>>
    /\ ~blocked
    /\ \E line \in VolumeLines :
        /\ ParseCommand(line).c = "Volume"
        /\ IF CheckPlaylistEmpty
           THEN Answer("Volume", line, "empty_playlist", "Error", NoPath)
           ELSE IF ~IsPlaying
           THEN Answer("Volume", line, "volume_nothing_playing", "Error", NoPath)
           ELSE LET v == ParseCommand(line).i
                IN  /\ sink_volume' = SetVolume(sink, sink_volume, Clamp(v))
                    /\ volume' = v
                    /\ emitted' = <<VolumeSet(v)>>
                    /\ last' = Step("Volume", line, None, current, "na", None)
                    /\ EndRun
                    /\ UNCHANGED <<items, current, mode, sink, blocked, walked,
                                   playerVars, lyricVars>>

\* Command::Unknown for a volume line: the message shows the text
CmdUnknownVolume ==
    /\ UNCHANGED <<renderVars, threadVars, parseVars>>
    /\ ~blocked
    /\ \E line \in VolumeLines :
        /\ ParseCommand(line).c = "Unknown"
        /\ Answer("Unknown", line, ParseCommand(line).m, "Error", NoPath)

\* Command::Now and show_now_playing: the name is UiState.now_name, the
\* index and the length are the Playlist's
HandleNow(line) ==
    IF CheckPlaylistEmpty
    THEN Answer("Now", line, "empty_playlist", "Error", NoPath)
    ELSE IF current = None
    THEN Answer("Now", line, "now_nothing_playing", "Info", NoPath)
    ELSE /\ emitted' = <<NowPlayingInfo(current, ui.now_name, Len(items),
                                        VolumeOrDefault(volume))>>
         /\ last' = Step("Now", line, None, current, "na", None)
         /\ EndRun
         /\ UNCHANGED <<items, current, mode, sink, blocked, walked, playerVars,
                        sink_volume, volume, lyricVars>>

CmdNow ==
    /\ UNCHANGED <<renderVars, threadVars, parseVars>>
    /\ ~blocked
    /\ \E line \in VolumeLines :
        /\ ParseCommand(line).c = "Now"
        /\ HandleNow(line)

\* Command::Search: hit is whether a file name contains the keyword
CmdSearch ==
    /\ UNCHANGED <<renderVars, threadVars, parseVars>>
    /\ ~blocked
    /\ \E line \in VolumeLines :
        /\ ParseCommand(line).c = "Search"
        /\ IF CheckPlaylistEmpty
           THEN Answer("Search", line, "empty_playlist", "Error", NoPath)
           ELSE \E hit \in BOOLEAN :
                Answer("Search", line,
                       IF hit THEN "search_results" ELSE "search_no_match", "Info", NoPath)

NextVolume ==
    \/ CmdFolder
    \/ CmdPlayIndex
    \/ CmdNext
    \/ CmdPrev
    \/ CmdUnknown
    \/ CmdVolume
    \/ CmdUnknownVolume
    \/ CmdNow
    \/ CmdSearch
    \/ TickFinished
    \/ SinkDrained

SpecVolume == Init /\ [][NextVolume]_vars

----------------------------------------------------------------------------
(* The lyric document and current_line_index, on their own: any lyric file *)
(* is loaded, then the current line is asked for at any positions.         *)

LoadLyrics ==
    /\ UNCHANGED <<renderVars, threadVars, parseVars>>
    /\ \E raw \in RawDocs : lyrics' = LoadFromPath(raw)
    /\ millis' = 0
    /\ line_idx' = None
    /\ emitted' = <<>>
    /\ last' = Step("LoadLyrics", NoLine, None, current, "na", None)
    /\ UNCHANGED <<items, current, mode, sink, blocked, advStart, advRun, walked,
                   playerVars, sink_volume, volume>>

AskCurrentLine ==
    /\ UNCHANGED <<renderVars, threadVars, parseVars>>
    /\ \E ms \in Positions :
        /\ millis' = ms
        /\ line_idx' = CurrentLineIndex(lyrics, ms)
    /\ emitted' = <<>>
    /\ last' = Step("CurrentLineIndex", NoLine, None, current, "na", None)
    /\ UNCHANGED <<items, current, mode, sink, blocked, advStart, advRun, walked,
                   playerVars, sink_volume, volume, lyrics>>

NextLyrics ==
    \/ LoadLyrics
    \/ AskCurrentLine

SpecLyrics == Init /\ [][NextLyrics]_vars

----------------------------------------------------------------------------
(* The render actor: ui_thread receives the events the playback actor      *)
(* sends, one at a time, and draws.  The playback actor writes UiState     *)
(* too: the lyrics and lmode commands and the tick's lyric-line check.     *)

\* The events of the step enter the channel, marked with their sender.
Enqueue(by, chg) ==
    /\ queue' = queue \o [i \in 1..Len(emitted') |-> Sent(emitted'[i], by, chg)]
    /\ Len(queue') <= MaxQueue

\* The playback actor is at the top of its loop.
PlaybackReady == ~blocked /\ tick_idx = None

\* The state in which `play 1` has just been handled on the scanned list:
\* the file loaded, a lyric sidecar was found, the three events of play_song
\* are in the channel.
StartedEvents ==
    <<UpdatePlayingState(0, Name(ScannedItems[1]), Name(ScannedItems[2])),
      UpdateLyrics(TRUE),
      ShowMessage("started_with_lyrics", "Ok", Name(ScannedItems[1]))>>

InitStarted ==
    /\ items = ScannedItems
    /\ current = 0
    /\ mode = "Sequential"
    /\ sink = PlayFile(NoSink, ScannedItems[1], "ok")
    /\ blocked = FALSE
    /\ emitted = StartedEvents
    /\ last = Step("PlayIndex", Line("play", "num", 1, ""), None, None, "ok", 0)
    /\ advStart = None
    /\ advRun = <<>>
    /\ walked = ScannedItems
    /\ now = 0
    /\ timing = PlayFileTiming(NoTiming, "ok", 0)
    /\ played = 0
    /\ sink_volume = SetVolume(PlayFile(NoSink, ScannedItems[1], "ok"), None,
                               VolumeOrDefault(None))
    /\ volume = None
    /\ lyrics = <<>>
    /\ millis = 0
    /\ line_idx = None
    /\ queue = [i \in 1..3 |-> Sent(StartedEvents[i], "PlayIndex", 1)]
    /\ ui = DefaultUiState
    /\ ui_pc = UiPc("recv", "", 0)
    /\ screen = Screen(Painted("none", FALSE, ""), "", 0)
    /\ tick_idx = None
    /\ change = 1
    /\ redraws = [c \in 0..MaxChanges |-> 0]
    /\ shown = 0
    /\ reported = None
    /\ InitThreads
    /\ InitParse

\* Command::Lyrics: the message for the new setting
LyricsToggled(u) ==
    IF u.show_lyrics
    THEN IF u.lyrics.some
         THEN IF Len(u.lyrics.lines) = 0
              THEN ShowMessage("lyrics_shown_empty", "Info", NoPath)
              ELSE ShowMessage("lyrics_shown_loaded", "Ok", NoPath)
         ELSE ShowMessage("lyrics_shown_not_found", "Info", NoPath)
    ELSE ShowMessage("lyrics_hidden", "Ok", NoPath)

\* Command::Lyrics
CmdLyrics ==
    /\ UNCHANGED <<threadVars, parseVars, reported>>
    /\ PlaybackReady
    /\ change < MaxChanges
    /\ \E line \in LyricLines :
        /\ ParseCommand(line).c = "Lyrics"
        /\ last' = Step("Lyrics", line, None, current, "na", None)
    /\ IF ~IsPlaying
       THEN /\ emitted' = <<ShowMessage("lyrics_nothing_playing", "Error", NoPath)>>
            /\ ui' = ui
       ELSE /\ ui' = ToggleLyrics(ui)
            /\ emitted' = <<LyricsToggled(ToggleLyrics(ui)), RefreshUI>>
    /\ EndRun
    /\ change' = change + 1
    /\ Enqueue("Lyrics", change + 1)
    /\ UNCHANGED <<items, current, mode, sink, blocked, walked, playerVars,
                   sink_volume, volume, lyricVars>>
    /\ UNCHANGED <<ui_pc, screen, tick_idx, redraws, shown>>

\* Command::LyricsMode
CmdLyricsMode ==
    /\ UNCHANGED <<threadVars, parseVars, reported>>
    /\ PlaybackReady
    /\ change < MaxChanges
    /\ \E line \in LyricLines :
        /\ ParseCommand(line).c = "LyricsMode"
        /\ last' = Step("LyricsMode", line, None, current, "na", None)
    /\ IF ~IsPlaying
       THEN /\ emitted' = <<ShowMessage("lmode_nothing_playing", "Error", NoPath)>>
            /\ ui' = ui
       ELSE /\ ui' = ToggleLyricsMode(ui)
            /\ emitted' = <<ShowMessage(IF ToggleLyricsMode(ui).lyrics_stream_mode
                                        THEN "lmode_stream" ELSE "lmode_full",
                                        "Ok", NoPath),
                            RefreshUI>>
    /\ EndRun
    /\ change' = change + 1
    /\ Enqueue("LyricsMode", change + 1)
    /\ UNCHANGED <<items, current, mode, sink, blocked, walked, playerVars,
                   sink_volume, volume, lyricVars>>
    /\ UNCHANGED <<ui_pc, screen, tick_idx, redraws, shown>>

\* audio_thread, the 200 ms branch, the track has not finished: the progress
\* report, then the lyric-line check under the UI lock.  When the line has
\* changed the lock is dropped before the new index is written.
TickLyricCheck ==
    /\ UNCHANGED <<threadVars, parseVars, reported>>
    /\ tick_idx = None
    /\ change < MaxChanges
    /\ ProgressReport
    /\ tick_idx' =
         IF /\ ~GetCurrentMsPanics(timing, now)
            /\ ui.show_lyrics /\ ui.lyrics.some /\ ui.now_index # None
            /\ CurrentLineIndex(ui.lyrics.lines, GetCurrentMs(timing, now))
                  # ui.current_lyric_line
         THEN CurrentLineIndex(ui.lyrics.lines, GetCurrentMs(timing, now))
         ELSE None
    /\ Enqueue("TickProgress", 0)
    /\ UNCHANGED <<ui, ui_pc, screen, change, redraws, shown>>

\* ... the UI lock taken again: the new index is written, RefreshUI is sent
TickLyricWrite ==
    /\ UNCHANGED <<threadVars, parseVars>>
    /\ ~blocked
    /\ tick_idx # None
    /\ reported' = tick_idx
    /\ ui' = [ui EXCEPT !.current_lyric_line = tick_idx]
    /\ tick_idx' = None
    /\ emitted' = <<RefreshUI>>
    /\ last' = Step("TickLyricWrite", NoLine, None, current, "na", None)
    /\ change' = change + 1
    /\ Enqueue("TickLyricWrite", change + 1)
    /\ UNCHANGED <<items, current, mode, sink, blocked, advStart, advRun, walked,
                   playerVars, sink_volume, volume, lyricVars>>
    /\ UNCHANGED <<ui_pc, screen, redraws, shown>>

\* ui_thread is at recv and the next event in the channel is of this kind
UiReady(kind) == ui_pc.at = "recv" /\ queue # <<>> /\ Head(queue).e.ev = kind

\* A step of ui_thread: nothing of the Playlist or the Player is written
UiStep(op) ==
    /\ last' = Step(op, NoLine, None, current, "na", None)
    /\ emitted' = <<>>
    /\ UNCHANGED <<items, current, mode, sink, blocked, advStart, advRun, walked,
                   playerVars, sink_volume, volume, lyricVars>>

\* AppEvent::ShowMessage: flash_message under the UI lock, then
\* refresh_ui_now takes the lock again
UiShowMessage ==
    /\ UNCHANGED <<threadVars, parseVars, reported>>
    /\ UiReady("ShowMessage")
    /\ ui' = FlashMessage(ui, Head(queue).e.msg, Head(queue).e.level)
    /\ shown' = 0
    /\ ui_pc' = UiPc("refresh", Head(queue).by, Head(queue).chg)
    /\ queue' = Tail(queue)
    /\ UiStep("UiShowMessage")
    /\ UNCHANGED <<screen, tick_idx, change, redraws>>

\* refresh_ui_now: Screen::draw under the UI lock
UiRefreshNow ==
    /\ UNCHANGED <<threadVars, parseVars, reported>>
    /\ ui_pc.at = "refresh"
    /\ LET d == Draw(ui)
       IN  /\ ui' = d.ui
           /\ screen' = Screen(d.pt, ui_pc.by, ui_pc.chg)
           /\ redraws' = IF Repaints(d.pt)
                         THEN [redraws EXCEPT ![ui_pc.chg] = @ + 1]
                         ELSE redraws
           /\ shown' = IF d.pt.op = "flash" THEN shown + 1 ELSE shown
    /\ ui_pc' = UiPc("recv", "", 0)
    /\ UiStep("UiRefreshNow")
    /\ UNCHANGED <<queue, tick_idx, change>>

\* AppEvent::UpdatePlayingState
UiUpdatePlayingState ==
    /\ UNCHANGED <<threadVars, parseVars, reported>>
    /\ UiReady("UpdatePlayingState")
    /\ ui' = SetNowPlaying(ui, Head(queue).e.idx, Head(queue).e.name, Head(queue).e.next)
    /\ queue' = Tail(queue)
    /\ UiStep("UiUpdatePlayingState")
    /\ UNCHANGED <<ui_pc, screen, tick_idx, change, redraws, shown>>

\* AppEvent::UpdateLyrics: the document is what the sidecar held
UiUpdateLyrics ==
    /\ UNCHANGED <<threadVars, parseVars, reported>>
    /\ UiReady("UpdateLyrics")
    /\ IF Head(queue).e.lyr
       THEN \E doc \in SidecarDocs : ui' = [ui EXCEPT !.lyrics = SomeLyrics(doc)]
       ELSE ui' = [ui EXCEPT !.lyrics = NoLyrics]
    /\ queue' = Tail(queue)
    /\ UiStep("UiUpdateLyrics")
    /\ UNCHANGED <<ui_pc, screen, tick_idx, change, redraws, shown>>

\* AppEvent::UpdateProgress
UiUpdateProgress ==
    /\ UNCHANGED <<threadVars, parseVars, reported>>
    /\ UiReady("UpdateProgress")
    /\ ui' = [ui EXCEPT !.current_ms = Head(queue).e.ms]
    /\ queue' = Tail(queue)
    /\ UiStep("UiUpdateProgress")
    /\ UNCHANGED <<ui_pc, screen, tick_idx, change, redraws, shown>>

\* AppEvent::RefreshUI: with the playing interface active,
\* force_refresh_playing_interface under the UI lock; else refresh_ui_now
UiRefreshUI ==
    /\ UNCHANGED <<threadVars, parseVars, reported>>
    /\ UiReady("RefreshUI")
    /\ IF ui.playing_ui_active
       THEN LET d == ForceRefreshPlayingInterface(ui)
            IN  /\ ui' = d.ui
                /\ screen' = Screen(d.pt, Head(queue).by, Head(queue).chg)
                /\ redraws' = IF Repaints(d.pt)
                              THEN [redraws EXCEPT ![Head(queue).chg] = @ + 1]
                              ELSE redraws
                /\ ui_pc' = ui_pc
       ELSE /\ ui_pc' = UiPc("refresh", Head(queue).by, Head(queue).chg)
            /\ UNCHANGED <<ui, screen, redraws>>
    /\ queue' = Tail(queue)
    /\ UiStep("UiRefreshUI")
    /\ UNCHANGED <<tick_idx, change, shown>>

NextRender ==
    \/ CmdLyrics
    \/ CmdLyricsMode
    \/ TickLyricCheck
    \/ TickLyricWrite
    \/ Tock
    \/ UiShowMessage
    \/ UiRefreshNow
    \/ UiUpdatePlayingState
    \/ UiUpdateLyrics
    \/ UiUpdateProgress
    \/ UiRefreshUI

SpecRender == InitStarted /\ [][NextRender]_vars

----------------------------------------------------------------------------
(* The render thread behind track changes: from the same start, the play,   *)
(* next, prev, now, mode, folder, lyrics and lmode lines and natural        *)
(* completion, each sending its events into the channel that ui_thread      *)
(* empties one event at a time.  The clock stands still.                    *)

\* A step of the playback actor whose events enter the channel
ViewStep(by) ==
    /\ PlaybackReady
    /\ change < MaxChanges
    /\ change' = change + 1
    /\ Enqueue(by, change + 1)
    /\ UNCHANGED <<ui, ui_pc, screen, tick_idx, redraws, shown, reported>>
    /\ UNCHANGED <<threadVars, parseVars>>

ViewPlayIndex ==
    /\ \E line \in Lines :
        /\ ParseCommand(line).c = "PlayIndex"
        /\ HandlePlayIndex(line, ParseCommand(line).i)
    /\ ViewStep("PlayIndex")

ViewNext ==
    /\ \E line \in Lines :
        /\ ParseCommand(line).c = "Next"
        /\ IF CheckPlaylistEmpty
           THEN Answer("Next", line, "empty_playlist", "Error", NoPath)
           ELSE NextSong(line)
    /\ ViewStep("Next")

ViewPrev ==
    /\ \E line \in Lines :
        /\ ParseCommand(line).c = "Prev"
        /\ IF CheckPlaylistEmpty
           THEN Answer("Prev", line, "empty_playlist", "Error", NoPath)
           ELSE PrevSong(line)
    /\ ViewStep("Prev")

ViewNow ==
    /\ \E line \in VolumeLines :
        /\ ParseCommand(line).c = "Now"
        /\ HandleNow(line)
    /\ ViewStep("Now")

ViewMode ==
    /\ \E line \in Lines :
        /\ ParseCommand(line).c = "Mode"
        /\ HandleMode(line)
    /\ ViewStep("Mode")

ViewFolder ==
    /\ \E line \in Lines, pk \in {"absent", "file", "dir"} :
        /\ ParseCommand(line).c = "Folder"
        /\ HandleFolder(line, pk)
    /\ ViewStep("Folder")

\* The tick finds the track finished
ViewAdvance ==
    /\ FinishedAdvance
    /\ ViewStep("TickFinished")

NextView ==
    \/ ViewPlayIndex
    \/ ViewNext
    \/ ViewPrev
    \/ ViewNow
    \/ ViewMode
    \/ ViewFolder
    \/ ViewAdvance
    \/ SinkDrained
    \/ CmdLyrics
    \/ CmdLyricsMode
    \/ UiShowMessage
    \/ UiRefreshNow
    \/ UiUpdatePlayingState
    \/ UiUpdateLyrics
    \/ UiRefreshUI

SpecView == InitStarted /\ [][NextView]_vars

----------------------------------------------------------------------------
(* The lyric-file reader on its own: the file holds any one line, which is *)
(* read by either build.                                                   *)

InitLrcFile ==
    /\ items = <<>>
    /\ current = None
    /\ mode = "Sequential"
    /\ sink = NoSink
    /\ blocked = FALSE
    /\ emitted = <<>>
    /\ last = Step("Init", NoLine, None, None, "na", None)
    /\ advStart = None
    /\ advRun = <<>>
    /\ walked = <<>>
    /\ now = 0
    /\ timing = NoTiming
    /\ played = 0
    /\ sink_volume = None
    /\ volume = None
    /\ lyrics = <<>>
    /\ millis = 0
    /\ line_idx = None
    /\ InitRender
    /\ InitThreads
    /\ lrc_line \in LrcLines
    /\ stamp = NoStamp

ReadLrcLine ==
    /\ stamp = NoStamp
    /\ \E build \in {"debug", "release"} : stamp' = LoadLine(lrc_line, build)
    /\ UNCHANGED <<actorVars, playerVars, lyricVars, renderVars, threadVars, lrc_line>>

NextParse == ReadLrcLine

SpecParse == InitLrcFile /\ [][NextParse]_vars

----------------------------------------------------------------------------
(* Natural completion: folder, play and mode lines, the backend playing a  *)
(* track to its end, and the tick.  The 200 ms branch of the select runs   *)
(* whenever no command is waiting, so the tick is fair; nothing obliges    *)
(* the user to type, and at some point the user may type no more.          *)

\* The user types a line
TypeFolder == typing /\ CmdFolder
TypePlayIndex == typing /\ CmdPlayIndex
TypeMode == typing /\ CmdMode

\* The user leaves the player to itself: input_thread stays in read_line
StopTyping ==
    /\ typing
    /\ typing' = FALSE
    /\ UNCHANGED <<actorVars, playerVars, lyricVars, renderVars, parseVars,
                   pc, held, cmds, exited>>

NextFinish ==
    \/ TypeFolder
    \/ TypePlayIndex
    \/ TypeMode
    \/ StopTyping
    \/ TickFinished
    \/ SinkDrained

SpecFinish == Init /\ [][NextFinish]_vars /\ WF_vars(TickFinished)

----------------------------------------------------------------------------
(* The four callers of peek_next_name on a scanned list: play, next, prev   *)
(* and the tick's advance, with mode lines between them.                    *)

NextPeek ==
    \/ CmdPlayIndex
    \/ CmdNext
    \/ CmdPrev
    \/ CmdMode
    \/ TickFinished
    \/ SinkDrained

SpecPeek == InitScanned /\ [][NextPeek]_vars

----------------------------------------------------------------------------
(* The three threads at the grain of their locks: the input thread (main), *)
(* the playback thread and the render thread.  A handler is the sequence   *)
(* of its lock, unlock, I/O and send steps; the threads interleave between *)
(* steps.  Which branch a handler takes depends on the Playlist, which the *)
(* other specifications follow: here every branch is taken.                *)

\* check_playlist_empty: the message is sent under the playlist lock
CheckEmptyHit ==
    <<Lock("playlist"), SendEvent(ShowMessage("empty_playlist", "Error", NoPath)),
      Unlock("playlist")>>
CheckEmptyMiss == <<Lock("playlist"), Unlock("playlist")>>

\* input_thread, one turn of its loop for the command typed; after quit it
\* breaks and main returns
InputPath(c) ==
    <<Lock("ui"), Unlock("ui"), Io("read_line"), SendCmd(c)>>
    \o (IF c = "Quit" THEN <<Return>> ELSE <<>>)

\* audio_thread and handle_command: the branches of each command
AudioPaths(c) ==
    CASE c = "Quit" -> {<<SendEvent(Shutdown), Break>>}
      [] c = "Folder" ->
            {<<Io("exists"), SendEvent(ShowMessage("path_not_exist", "Error", NoPath))>>,
             <<Io("exists"), Io("is_dir"),
               SendEvent(ShowMessage("path_not_dir", "Error", NoPath))>>,
             <<Io("exists"), Io("is_dir"), Lock("playlist"), Io("scan_folder"),
               SendEvent(ShowMessage("scanned", "Ok", NoPath)), Unlock("playlist")>>}
      [] c = "Mode" ->
            {CheckEmptyHit,
             CheckEmptyMiss \o <<Lock("playlist"),
                                 SendEvent(ShowMessage("mode_already", "Info", NoPath)),
                                 Unlock("playlist")>>,
             CheckEmptyMiss \o <<Lock("playlist"), Lock("ui"), Unlock("ui"),
                                 Unlock("playlist"),
                                 SendEvent(ShowMessage("mode_switched", "Ok", NoPath))>>}
      [] c = "Now" ->
            {CheckEmptyHit,
             CheckEmptyMiss \o <<Lock("ui"), Lock("playlist"), Unlock("ui"),
                                 Unlock("playlist"),
                                 SendEvent(NowPlayingInfo(0, NoPath, 1, DefaultVolume))>>,
             CheckEmptyMiss \o <<Lock("ui"), Lock("playlist"),
                                 SendEvent(ShowMessage("now_nothing_playing", "Info", NoPath)),
                                 Unlock("playlist"), Unlock("ui")>>}

\* ui_thread: ShowMessage is flash_message under the UI lock, then
\* refresh_ui_now (UI lock, playlist lock for clone_view, draw); Shutdown is
\* the goodbye message and the end of the loop
UiPath(e) ==
    IF e.ev = "ShowMessage"
    THEN <<Lock("ui"), Unlock("ui"),
           Lock("ui"), Lock("playlist"), Unlock("playlist"), Io("draw"), Unlock("ui")>>
    ELSE <<Io("show_goodbye_message"), Break>>

\* No thread holds the lock (parking_lot::Mutex: a second lock() waits, also
\* for the thread that holds it).
Free(l) == \A t \in Threads : \A i \in 1..Len(held[t]) : held[t][i] # l

\* The thread t is at step `op` of its handler, no I/O call in progress.
At(t, op) ==
    /\ ~exited
    /\ pc[t].io = ""
    /\ pc[t].todo # <<>>
    /\ Head(pc[t].todo).op = op

\* The thread after its step: back at the top of its loop after the last one.
After(p, io) ==
    Pc(IF Len(p.todo) = 1 /\ io = "" THEN "loop" ELSE p.in, Tail(p.todo), io)

\* A step of the threads: the Playlist, the Player and UiState are not followed
ThreadStep == UNCHANGED <<actorVars, playerVars, lyricVars, parseVars, typing,
                          ui, ui_pc, screen, tick_idx, change, redraws, shown,
                          reported>>

\* input_thread reads the next line
InputLoop ==
    /\ ~exited
    /\ pc["input"] = Pc("loop", <<>>, "")
    /\ \E c \in TypedCmds : pc' = [pc EXCEPT !["input"] = Pc("input", InputPath(c), "")]
    /\ UNCHANGED <<held, cmds, exited, queue>>
    /\ ThreadStep

\* audio_thread: recv(cmd_rx)
AudioRecv ==
    /\ ~exited
    /\ pc["audio"] = Pc("loop", <<>>, "")
    /\ cmds # <<>>
    /\ \E path \in AudioPaths(Head(cmds)) :
            pc' = [pc EXCEPT !["audio"] = Pc(Head(cmds), path, "")]
    /\ cmds' = Tail(cmds)
    /\ UNCHANGED <<held, exited, queue>>
    /\ ThreadStep

\* ui_thread: event_rx.recv()
UiRecv ==
    /\ ~exited
    /\ pc["ui"] = Pc("loop", <<>>, "")
    /\ queue # <<>>
    /\ pc' = [pc EXCEPT !["ui"] = Pc(Head(queue).e.ev, UiPath(Head(queue).e), "")]
    /\ queue' = Tail(queue)
    /\ UNCHANGED <<held, cmds, exited>>
    /\ ThreadStep

\* Mutex::lock
TakeLock ==
    /\ \E t \in Threads :
        /\ At(t, "lock")
        /\ Free(Head(pc[t].todo).what)
        /\ held' = [held EXCEPT ![t] = Append(@, Head(pc[t].todo).what)]
        /\ pc' = [pc EXCEPT ![t] = After(@, "")]
    /\ UNCHANGED <<cmds, exited, queue>>
    /\ ThreadStep

\* The guard is dropped
DropLock ==
    /\ \E t \in Threads :
        /\ At(t, "unlock")
        /\ held' = [held EXCEPT ![t] =
                        SelectSeq(@, LAMBDA l : l # Head(pc[t].todo).what)]
        /\ pc' = [pc EXCEPT ![t] = After(@, "")]
    /\ UNCHANGED <<cmds, exited, queue>>
    /\ ThreadStep

\* An I/O call begins (the terminal, stdin, the file system) ...
BeginIo ==
    /\ \E t \in Threads :
        /\ At(t, "io")
        /\ pc' = [pc EXCEPT ![t] = After(@, Head(pc[t].todo).what)]
    /\ UNCHANGED <<held, cmds, exited, queue>>
    /\ ThreadStep

\* ... and returns
EndIo ==
    /\ ~exited
    /\ \E t \in Threads :
        /\ pc[t].io # ""
        /\ pc' = [pc EXCEPT ![t] =
                    Pc(IF @.todo = <<>> THEN "loop" ELSE @.in, @.todo, "")]
    /\ UNCHANGED <<held, cmds, exited, queue>>
    /\ ThreadStep

\* cmd_tx.send
SendCommand ==
    /\ At("input", "send")
    /\ Len(cmds) < MaxPending
    /\ cmds' = Append(cmds, Head(pc["input"].todo).what)
    /\ pc' = [pc EXCEPT !["input"] = After(@, "")]
    /\ UNCHANGED <<held, exited, queue>>
    /\ ThreadStep

\* event_tx.send
SendAppEvent ==
    /\ At("audio", "send")
    /\ Len(queue) < MaxPending
    /\ queue' = Append(queue, Sent(Head(pc["audio"].todo).e, pc["audio"].in, 0))
    /\ pc' = [pc EXCEPT !["audio"] = After(@, "")]
    /\ UNCHANGED <<held, cmds, exited>>
    /\ ThreadStep

\* A thread leaves its loop
BreakLoop ==
    /\ \E t \in Threads :
        /\ At(t, "break")
        /\ pc' = [pc EXCEPT ![t] = Pc("done", <<>>, "")]
    /\ UNCHANGED <<held, cmds, exited, queue>>
    /\ ThreadStep

\* input_thread returns Ok(()) and main returns it: the process ends, with
\* the other threads wherever they are
MainReturns ==
    /\ At("input", "return")
    /\ exited' = TRUE
    /\ pc' = [pc EXCEPT !["input"] = Pc("done", <<>>, "")]
    /\ UNCHANGED <<held, cmds, queue>>
    /\ ThreadStep

NextThreads ==
    \/ InputLoop
    \/ AudioRecv
    \/ UiRecv
    \/ TakeLock
    \/ DropLock
    \/ BeginIo
    \/ EndIo
    \/ SendCommand
    \/ SendAppEvent
    \/ BreakLoop
    \/ MainReturns

SpecThreads == Init /\ [][NextThreads]_vars

----------------------------------------------------------------------------
(* Properties                                                              *)

IsErrorMessage(e) == e.ev = "ShowMessage" /\ e.level = "Error"

\* C1: in every reachable state the current index is absent or strictly
\* less than the length of the song list.
C1_CurrentInRange == current = None \/ (current >= 0 /\ current < Len(items))

\* C1, its case: a rescan finds a shorter list than the index that was current.
C1_Witness ==
    last.op = "Folder" /\ last.cur0 = 2 /\ Len(items) = 1 /\ current = None

\* C2: on a non-empty list, in every mode and for every current index
\* (none included), next_index and prev_index return an index in [0, length).
C2_NextPrevInRange ==
    Len(items) > 0 =>
        \A r \in NextIndexStep(items, current, mode) \cup PrevIndex(items, current, mode) :
            r >= 0 /\ r < Len(items)

\* C3: under Sequential on a non-empty list, next_index returns
\* (current + 1) mod length, and 0 when there is no current index.
C3_SequentialNextIndex ==
    (mode = "Sequential" /\ Len(items) > 0) =>
        NextIndexStep(items, current, mode) =
            {IF current = None THEN 0 ELSE (current + 1) % Len(items)}

\* C4: under Sequential, with two or more tracks and current index c, the
\* `next` command makes (c + 1) mod length current and starts that track
\* (play_file is called on it and, the file being playable, the sink plays
\* it), wrapping from the last track to the first.
C4_NextSequentialWraps ==
    [][(last'.op = "Next" /\ mode = "Sequential" /\ Len(items) >= 2 /\ current # None) =>
          LET n == (current + 1) % Len(items)
          IN  /\ current' = n
              /\ last'.tgt = n
              /\ emitted'[1] \in {UpdatePlayingState(n, Name(items[n + 1]), nx) : nx \in Paths}
              /\ (last'.io = "ok" => sink' = Sink(TRUE, items[n + 1], "playing"))]_vars

\* C4, its case: three tracks, `next` on the last one plays the first.
C4_Witness ==
    /\ last.op = "Next" /\ mode = "Sequential" /\ Len(items) = 3
    /\ last.cur0 = 2 /\ current = 0
    /\ sink = Sink(TRUE, items[1], "playing")

\* C5: under Sequential, from a current index, a run of exactly `length`
\* advance_on_finished calls with no command in between leaves the current
\* index where it started, and the indices returned visit every track once.
C5_SequentialCycle ==
    (mode = "Sequential" /\ advStart # None /\ Len(items) > 0 /\ Len(advRun) = Len(items)) =>
        /\ current = advStart
        /\ {advRun[k] : k \in 1..Len(advRun)} = 0..(Len(items) - 1)

\* C5, its case: three tracks, three advances from index 1.
C5_Witness ==
    /\ mode = "Sequential" /\ Len(items) = 3 /\ advStart = 1
    /\ advRun = <<2, 0, 1>> /\ current = 1

\* C6: under RepeatOne, next_index and advance_on_finished return the
\* current index and leave the stored current index as it was.
C6_RepeatOneKeepsCurrent ==
    mode = "RepeatOne" =>
        /\ NextIndexStep(items, current, mode) = {current}
        /\ AdvanceOnFinished(items, current, mode) = {Adv(current, current)}
        /\ (last.op = "TickFinished" => (last.ret = last.cur0 /\ current = last.cur0))

\* C6, its case: a track ends under RepeatOne and is started again.
C6_Witness ==
    /\ mode = "RepeatOne" /\ last.op = "TickFinished"
    /\ last.cur0 = 1 /\ last.ret = 1 /\ current = 1
    /\ sink = Sink(TRUE, items[2], "playing")

\* C7: under Shuffle with more than one track and a current index, neither
\* next_index, prev_index nor advance_on_finished can return the current
\* index; on a single-track list Shuffle returns that track's index.
C7_ShuffleExcludesCurrent ==
    mode = "Shuffle" =>
        /\ (Len(items) > 1 /\ current # None) =>
                /\ current \notin NextIndexStep(items, current, mode)
                /\ current \notin PrevIndex(items, current, mode)
                /\ \A a \in AdvanceOnFinished(items, current, mode) : a.ret # current
        /\ Len(items) = 1 =>
                /\ NextIndexStep(items, current, mode) = {0}
                /\ PrevIndex(items, current, mode) = {0}
                /\ AdvanceOnFinished(items, current, mode) = {Adv(0, 0)}
        /\ (last.op \in {"Next", "Prev", "TickFinished"} /\ Len(items) > 1 /\ last.cur0 # None) =>
                (last.ret # last.cur0 /\ current = last.ret)

\* C7, its case: `next` under Shuffle on two tracks leaves the current one.
C7_Witness ==
    /\ mode = "Shuffle" /\ last.op = "Next" /\ Len(items) = 2
    /\ last.cur0 = 0 /\ last.ret = 1 /\ current = 1

\* C8: the index advance_on_finished returns and stores is one next_index
\* could return in the same state (any mode, any current index, none
\* included); on an empty list it returns none and leaves current alone.
C8_AdvanceFollowsNextIndex ==
    last.op = "TickFinished" =>
        IF Len(items) > 0
        THEN last.ret \in NextIndexStep(items, last.cur0, mode) /\ current = last.ret
        ELSE last.ret = None /\ current = last.cur0

\* C9: `play n` takes a 1-based index: with 1 <= n <= length (and `play`
\* alone as n = 1) on a playable file, index n-1 becomes current and is
\* played; n = 0, n > length and any n on an empty list are answered by one
\* error message, and leave the current index and the player as they were.
C9_PlayCommand ==
    [][(last'.line.kw = "play" /\ last'.line.ak # "word") =>
          LET n == IF last'.line.ak = "none" THEN 1 ELSE last'.line.n
          IN  IF n >= 1 /\ n <= Len(items)
              THEN last'.io = "ok" =>
                        /\ current' = n - 1
                        /\ sink' = Sink(TRUE, items[n], "playing")
                        /\ emitted'[1] \in {UpdatePlayingState(n - 1, Name(items[n]), nx) :
                                                nx \in Paths}
              ELSE /\ current' = current
                   /\ sink' = sink
                   /\ Len(emitted') = 1
                   /\ IsErrorMessage(emitted'[1])]_vars

\* C9, its case: `play 2` makes index 1 current and plays it.
C9_Witness ==
    /\ last.line = Line("play", "num", 2, "") /\ last.io = "ok"
    /\ current = 1 /\ sink = Sink(TRUE, items[2], "playing")

\* C10: a play attempt (play, next, prev, natural-completion advance) on a
\* file that is missing or does not decode is reported as an error, is not
\* announced as playing, and leaves the current index as it was.
C10_FailedPlayReported ==
    [][(last'.tgt # None /\ last'.io \in {"missing", "corrupt"}) =>
          /\ current' = current
          /\ \E k \in 1..Len(emitted') : IsErrorMessage(emitted'[k])
          /\ \A k \in 1..Len(emitted') :
                /\ emitted'[k].ev # "UpdatePlayingState"
                /\ ~(emitted'[k].ev = "ShowMessage" /\ emitted'[k].level = "Ok")]_vars

----------------------------------------------------------------------------
(* Failed loads and the tick                                               *)

\* The step called play_file and play_file returned early (play_song does
\* not call it for a file that does not exist).
LoadFailed(st) ==
    /\ st.tgt # None
    /\ \/ st.io = "corrupt"
       \/ st.io = "missing" /\ st.op # "PlayIndex"

\* C11: after a play attempt has failed to load its file, the next tick does
\* not attempt any track on its own.
C11_NoAttemptAfterFailedLoad ==
    [][LoadFailed(last) => ~(last'.op = "TickFinished" /\ last'.tgt # None)]_vars

----------------------------------------------------------------------------
(* Elapsed time (SpecPlayer)                                               *)

\* A track is loaded: the sink holds it, playing or paused.
Loaded == sink.some /\ sink.st \in {"playing", "paused"}

\* C12: while a track is loaded, whatever pauses and resumes it has seen, the
\* reported elapsed time is the time the track has spent playing; the
\* computation never goes below zero.
C12_ElapsedIsTimePlaying ==
    /\ ElapsedRaw(timing, now) >= 0
    /\ Loaded => GetCurrentMs(timing, now) = played

\* C12, its case: a track that was paused for a while and resumed, so that
\* less time was played than has passed since it started.
C12_Witness ==
    /\ last.op = "Resume" /\ sink.st = "playing"
    /\ timing.elapsed_pause >= 1 /\ played >= 1
    /\ played < now - timing.started_at

\* C13: every play whose file loads leaves the sink playing the new track and
\* the clock-keeping fresh: started now, no pending pause, no accumulated
\* pause, elapsed time zero.
C13_PlayResetsElapsed ==
    [][last'.io = "ok" =>
          /\ sink' = Sink(TRUE, Get(items', last'.tgt), "playing")
          /\ timing' = Timing(now', None, 0)
          /\ GetCurrentMs(timing', now') = 0]_vars

\* C13, its case: a play some time into the run, replacing an earlier track.
C13_Witness ==
    /\ last.op = "PlayIndex" /\ last.io = "ok" /\ last.cur0 # None
    /\ now >= 2 /\ timing = Timing(now, None, 0)

\* C14: with no sink, pause and resume leave the sink absent and the reported
\* elapsed time 0, and the play that follows starts at 0 with no pending
\* pause.
C14_PauseResumeNothingLoaded ==
    [][sink = NoSink =>
          /\ last'.op \in {"Pause", "Resume"} => sink' = NoSink
          /\ sink' = NoSink => GetCurrentMs(timing', now') = 0
          /\ (last'.io = "ok" /\ (timing.paused_at # None \/ timing.elapsed_pause # 0)) =>
                /\ GetCurrentMs(timing', now') = 0
                /\ timing'.paused_at = None]_vars

\* C14, its case: pause, then resume a while later, with no sink.
C14_Witness ==
    /\ sink = NoSink /\ current # None
    /\ last.op = "Resume" /\ timing.elapsed_pause >= 1

----------------------------------------------------------------------------
(* The current lyric line (SpecLyrics)                                     *)

\* current_line_index has answered for `millis` on the loaded document.
Asked == last.op = "CurrentLineIndex"

\* Some line's timestamp is not after the position.
SomeLineReached == \E i \in 1..Len(lyrics) : lyrics[i] <= millis

\* The answer is the greatest index whose timestamp is not after the position.
GreatestReached ==
    /\ line_idx + 1 \in 1..Len(lyrics)
    /\ lyrics[line_idx + 1] <= millis
    /\ \A j \in 1..Len(lyrics) : lyrics[j] <= millis => j - 1 <= line_idx

\* C15 as stated: when some timestamp is not after the position the answer is
\* the greatest such index, and it is index 0 at position 0 whenever the
\* first timestamp is 0.
C15_GreatestIndexFirstAtZero ==
    (Asked /\ SomeLineReached) =>
        /\ GreatestReached
        /\ (lyrics[1] = 0 /\ millis = 0) => line_idx = 0

\* C15 amended: when some timestamp is not after the position the answer is
\* the greatest such index; it is index 0 at position 0 when the first
\* timestamp is 0 and no other line has timestamp 0.
C15_GreatestIndex ==
    (Asked /\ SomeLineReached) =>
        /\ GreatestReached
        /\ (lyrics[1] = 0 /\ millis = 0 /\ (Len(lyrics) = 1 \/ lyrics[2] > 0)) =>
                line_idx = 0

\* C15, its case: the position lies between the second and the third line.
C15_Witness ==
    /\ Asked /\ Len(lyrics) = 3
    /\ lyrics[1] < lyrics[2] /\ lyrics[2] <= millis /\ millis < lyrics[3]
    /\ line_idx = 1

\* C16: when the document is empty or every timestamp is after the position
\* the answer is "none", which is not index 0.
C16_NoneBeforeFirstLine ==
    (Asked /\ ~SomeLineReached) => (line_idx = None /\ line_idx # 0)

\* C17: on a loaded (sorted) document the answer never decreases as the
\* position grows: the answer for any earlier position is not greater.
C17_MonotoneInPosition ==
    Asked => \A p \in 0..millis : CurrentLineIndex(lyrics, p) <= line_idx

\* C17, its case: the answer has moved up from what it is at position 0.
C17_Witness ==
    /\ Asked /\ millis >= 1 /\ line_idx >= 1
    /\ CurrentLineIndex(lyrics, 0) < line_idx

----------------------------------------------------------------------------
(* Folder rescan and the mode (Spec)                                       *)

\* The step was a folder command whose scan went through.
Rescanned(st, evs) ==
    /\ st.op = "Folder"
    /\ Len(evs) = 1
    /\ evs[1].msg \in {"scanned", "no_audio_found"}

\* C18: after a successful folder rescan the song list is what the scan
\* found, nothing else, and the current index is none, whatever they were.
C18_RescanReplacesList ==
    [][Rescanned(last', emitted') => (items' = walked' /\ current' = None)]_vars

\* C18, its case: a rescan while a track of the old list is current and
\* playing finds a different list.
C18_Witness ==
    /\ Rescanned(last, emitted) /\ last.cur0 # None
    /\ sink.some /\ sink.st = "playing" /\ sink.track \notin {items[k] : k \in 1..Len(items)}
    /\ items = walked /\ Len(items) >= 1 /\ current = None

\* C19: a step that is not a mode command leaves the mode as it was.
C19_ModeOnlyByModeCommand ==
    [][last'.op # "Mode" => mode' = mode]_vars

----------------------------------------------------------------------------
(* The volume command and `now` (SpecVolume)                               *)

\* The line is `volume n` with n in 0..100.
VolumeInRange(line) == line.kw = "volume" /\ line.ak = "num" /\ line.n \in 0..100

\* C20 as stated: a volume outside 0..100 is rejected with an error and the
\* stored volume stays; a volume in 0..100 is accepted and stored; every
\* `now` output reports the stored volume until a volume line changes it.
C20_VolumeCommand ==
    [][/\ last'.line.kw = "volume" =>
            IF VolumeInRange(last'.line)
            THEN volume' = last'.line.n /\ emitted' = <<VolumeSet(last'.line.n)>>
            ELSE volume' = volume /\ Len(emitted') = 1 /\ IsErrorMessage(emitted'[1])
       /\ last'.line.kw # "volume" => volume' = volume
       /\ last'.line.kw = "now" => emitted'[1].vol = VolumeOrDefault(volume')]_vars

\* C20 amended: a volume outside 0..100 is rejected with an error and the
\* stored volume stays; a volume in 0..100 is accepted and stored when a
\* track is current, otherwise rejected with an error and the stored volume
\* stays; every `now` output that shows the playing track reports the stored
\* volume (50 when none was ever accepted).
C20_VolumeCommandWhenPlaying ==
    [][/\ last'.line.kw = "volume" =>
            IF VolumeInRange(last'.line) /\ Len(items) > 0 /\ current # None
            THEN volume' = last'.line.n /\ emitted' = <<VolumeSet(last'.line.n)>>
            ELSE volume' = volume /\ Len(emitted') = 1 /\ IsErrorMessage(emitted'[1])
       /\ last'.line.kw # "volume" => volume' = volume
       /\ (last'.line.kw = "now" /\ emitted'[1].msg = "now_playing_info") =>
            emitted'[1].vol = VolumeOrDefault(volume')]_vars

\* C20, its case: `now` reports 80, the volume last accepted.
C20_Witness ==
    /\ last.line.kw = "now" /\ emitted[1].msg = "now_playing_info"
    /\ volume = 80 /\ emitted[1].vol = 80

----------------------------------------------------------------------------
\* The steps that start a track: play, next, prev and the natural-completion
\* advance, when the file loads.
TrackStarted(st) ==
    st.op \in {"PlayIndex", "Next", "Prev", "TickFinished"} /\ st.io = "ok"

\* C21: an accepted volume v stays the last used volume: every later step
\* that starts a track (play, next, prev, natural-completion advance) sets
\* the backend of the new track to v, and the last used volume changes only
\* when a volume command is accepted.
C21_VolumePersists ==
    [][/\ (volume # None /\ TrackStarted(last')) =>
            /\ sink'.st = "playing"
            /\ sink_volume' = volume
       /\ volume' # volume =>
            /\ last'.op = "Volume"
            /\ ParseCommand(last'.line).c = "Volume"
            /\ volume' = ParseCommand(last'.line).i]_vars

\* a track started by next, prev or the advance after volume 80 was accepted
C21_Witness ==
    /\ volume = 80
    /\ last.op \in {"Next", "Prev", "TickFinished"}
    /\ last.io = "ok"
    /\ sink_volume = 80

----------------------------------------------------------------------------
\* The lines parse_command is to reject: an unknown keyword, play 0, play
\* with a non-number, a volume outside 0..100 or not a number, search or
\* folder without an argument.
RejectedLine(line) ==
    \/ line.kw = "bogus"
    \/ line.kw = "play" /\ (line.ak = "word" \/ (line.ak = "num" /\ line.n = 0))
    \/ line.kw = "volume" /\ (line.ak = "word" \/ (line.ak = "num" /\ ~VolumeInRange(line)))
    \/ line.kw \in {"search", "folder"} /\ line.ak = "none"

\* The steps that reject at the handler: play n beyond the list, folder with
\* a path that is absent or is not a directory.
RejectedStep(st, len) ==
    \/ RejectedLine(st.line)
    \/ st.op = "PlayIndex" /\ st.line.ak = "num" /\ st.line.n > len
    \/ st.op = "Folder" /\ st.io \in {"absent", "file"}

\* C22: every rejected command is answered by exactly one flash message and
\* writes nothing: song list, current index, mode, volume and the engine
\* (sink, its volume, its clock-keeping) are as before.
C22_RejectedIsNoOp ==
    [][RejectedStep(last', Len(items)) =>
          /\ Len(emitted') = 1
          /\ emitted'[1].ev = "ShowMessage"
          /\ emitted'[1].level = "Error"
          /\ UNCHANGED <<items, current, mode, volume, sink, sink_volume, timing>>]_vars

\* play 3 typed on a list of two while a track plays at a set volume
C22_Witness ==
    /\ last.op = "PlayIndex" /\ last.line = Line("play", "num", 3, "")
    /\ Len(items) = 2
    /\ sink.st = "playing"
    /\ volume = 80
    /\ emitted = <<ShowMessage("index_out_of_range", "Error", NoPath)>>

----------------------------------------------------------------------------
\* C23: a queued flash message is displayed at most once: the step that
\* displays it displays the pending message and leaves no message pending,
\* and no message is displayed a second time before a new one is queued.
C23_FlashShownOnce ==
    [][/\ (last'.op \in {"UiRefreshNow", "UiRefreshUI"} /\ screen'.op = "flash") =>
            /\ ui.flash.some
            /\ screen'.msg = ui.flash.msg
            /\ ~ui'.flash.some
       /\ shown' <= 1]_vars

\* the message was displayed, and a later refresh did not display it again
C23_Witness ==
    /\ last.op = "UiRefreshUI"
    /\ screen.op = "interface"
    /\ shown = 1
    /\ ~ui.flash.some

\* C27: the events of one state change repaint the screen at most once.
C27_OneRepaintPerChange == \A c \in 1..MaxChanges : redraws[c] <= 1

\* C28: with streaming lyric mode active, the refresh for a lyric-line
\* transition that the tick detected during playback (the document has
\* lines and the current line has moved past the first) does not clear the
\* whole screen.
C28_StreamingNeverClears ==
    [][(/\ last'.op = "UiRefreshUI"
        /\ screen'.by = "TickLyricWrite"
        /\ ui.lyrics_stream_mode
        /\ ui.lyrics.some /\ Len(ui.lyrics.lines) > 0
        /\ ui.current_lyric_line >= 1) => ~screen'.clear]_vars

----------------------------------------------------------------------------
\* A line `[mm:ss.fraction]text`: minutes and seconds are digits, the
\* fraction is absent or has one to three digits, the text is not empty.
WellFormedLine(line) ==
    /\ line.tagged /\ line.text # ""
    /\ line.tag.colon
    /\ ~line.tag.mm.junk /\ Len(line.tag.mm.digits) >= 1
    /\ ~line.tag.ss.junk /\ Len(line.tag.ss.digits) >= 1
    /\ line.tag.dot =>
        /\ ~line.tag.frac.junk /\ ~line.tag.frac.sign
        /\ Len(line.tag.frac.digits) \in 1..3

\* The fraction in milliseconds: one digit is tenths, two are hundredths,
\* three are thousandths.
FractionMs(tag) ==
    IF ~tag.dot THEN 0
    ELSE CASE Len(tag.frac.digits) = 1 -> DigitsValue(tag.frac.digits) * 100
           [] Len(tag.frac.digits) = 2 -> DigitsValue(tag.frac.digits) * 10
           [] OTHER -> DigitsValue(tag.frac.digits)

\* C29: a line `[mm:ss.fraction]text` becomes the lyric line
\* (mm*60000 + ss*1000 + f, text), f the fraction scaled by its digits.
C29_TimestampFormula ==
    (WellFormedLine(lrc_line) /\ stamp.outcome # "unread") =>
        /\ stamp.outcome = "pushed"
        /\ stamp.text = lrc_line.text
        /\ stamp.ms = DigitsValue(lrc_line.tag.mm.digits) * 60000
                        + DigitsValue(lrc_line.tag.ss.digits) * 1000
                        + FractionMs(lrc_line.tag)

\* C30: reading a line never panics and the timestamp arithmetic never
\* leaves the range of the unsigned type.
C30_NoPanicNoOverflow == stamp.outcome # "panic" /\ ~stamp.wrapped

----------------------------------------------------------------------------
\* C24: when the process exits, the playback actor has observed the quit
\* command: it has sent Shutdown and left its loop, and no quit command is
\* left in the command channel.
C24_QuitObservedBeforeExit ==
    exited =>
        /\ pc["audio"].in = "done"
        /\ \A i \in 1..Len(cmds) : cmds[i] # "Quit"

\* C25: a thread that holds both locks took the playlist lock first.
C25_PlaylistBeforeUi ==
    \A t \in Threads : \A i, j \in 1..Len(held[t]) :
        (held[t][i] = "playlist" /\ held[t][j] = "ui") => i < j

\* C26: a thread with an I/O call in progress holds no lock.
C26_NoIoUnderLock == \A t \in Threads : pc[t].io # "" => held[t] = <<>>

\* The thread t is at a lock() of a lock that the thread u holds.
WaitsFor(t, u) ==
    /\ pc[t].io = ""
    /\ pc[t].todo # <<>>
    /\ Head(pc[t].todo).op = "lock"
    /\ \E i \in 1..Len(held[u]) : held[u][i] = Head(pc[t].todo).what

\* C31: no two threads each wait for a lock the other holds (the playlist
\* lock against the UI lock), also for a mode command handled while the
\* render thread is in refresh_ui_now.
C31_NoMutualWait ==
    \A t, u \in Threads : t # u => ~(WaitsFor(t, u) /\ WaitsFor(u, t))

\* C32: on a list of two or more songs a next or prev command is handled to
\* the end: the handler never asks for the playlist lock while it holds it.
C32_NextPrevCompletes ==
    (last.op \in {"Next", "Prev"} /\ Len(items) >= 2) => ~blocked

\* The tick has just advanced: it took an index from advance_on_finished,
\* started that track when its file loads, and sent the now-playing update,
\* the lyric update and the refresh, in that order.
TickAdvanced ==
    /\ last.op = "TickFinished"
    /\ last.ret # None
    /\ current = last.ret
    /\ last.io = "ok" => sink = Sink(TRUE, Get(items, last.ret), "playing")
    /\ Len(emitted) = 3
    /\ emitted[1].ev = "UpdatePlayingState" /\ emitted[1].idx = last.ret
    /\ emitted[2].ev = "UpdateLyrics"
    /\ emitted[3] = RefreshUI

\* C33: with a non-empty list and no further commands, whenever the backend has finished its track a
\* later tick advances, starts the resulting track and sends the three
\* events; playback does not stay finished forever.
C33_FinishedLeadsToAdvance ==
    (~typing /\ Finished(sink) /\ Len(items) > 0) ~> TickAdvanced

\* C34: the guard of pause, resume, volume, lyrics and lmode (a current
\* index is present) holds exactly when the Player has a track loaded:
\* audio that plays or is paused is audio the guard lets a command reach,
\* and when the guard holds the Player has a sink.
C34_GuardIffTrackLoaded ==
    /\ (sink.some /\ sink.st \in {"playing", "paused"}) => IsPlaying
    /\ IsPlaying => sink.some

\* C35: a tick on a playing track sends a refresh only when lyrics are
\* visible and loaded and the line index for the position differs from the
\* index the tick reported last; ticks within one lyric line cause no
\* second refresh for that line.
C35_RefreshOnlyOnNewLine ==
    [][(last'.op = "TickProgress" /\ tick_idx' # None) =>
            /\ ui.show_lyrics
            /\ ui.lyrics.some
            /\ tick_idx' = CurrentLineIndex(ui.lyrics.lines, GetCurrentMs(timing, now))
            /\ tick_idx' # reported]_vars

\* C36: the snapshot of `now` is consistent: the song name it reports is the
\* file name of the track at the current index it reports.
C36_NowSnapshotConsistent ==
    (last.op = "Now" /\ emitted # <<>> /\ emitted[1].msg = "now_playing_info") =>
        emitted[1].name = Name(Get(items, emitted[1].idx))

\* C37: no flash message waiting to be displayed is overwritten by a later
\* one or wiped before it has been displayed: the pending message changes
\* only in the step that prints it.
C37_PendingFlashIsDisplayed ==
    [][(ui.flash.some /\ shown = 0 /\ ui'.flash # ui.flash) =>
            (screen'.op = "flash" /\ screen'.msg = ui.flash.msg)]_vars

\* C38: under Sequential and RepeatOne, once the render thread has consumed
\* every pending event, the next-track name shown (UiState.next_name) is the
\* name of the track natural completion would play next under the
\* Playlist's mode.
C38_NextNameShownIsNextPlayed ==
    (/\ queue = <<>> /\ ui_pc.at = "recv" /\ PlaybackReady
     /\ ui.now_index # None
     /\ Len(items) > 0
     /\ mode \in {"Sequential", "RepeatOne"}) =>
        \A a \in AdvanceOnFinished(items, current, mode) :
            ui.next_name = IF a.ret = None THEN NoPath ELSE Name(Get(items, a.ret))

\* C39: lyric visibility and the lyric rendering style change only in the
\* step of a lyrics or lmode command; a track change (play, next, prev,
\* natural completion) shown after another track leaves both as they were.
C39_LyricSettingsByCommandOnly ==
    [][(/\ ui.now_index # None
        /\ \/ ui'.show_lyrics # ui.show_lyrics
           \/ ui'.lyrics_stream_mode # ui.lyrics_stream_mode) =>
            last'.op \in {"Lyrics", "LyricsMode"}]_vars

\* C40: peek_next_name leaves the Playlist as it is (the list, the mode, and
\* the current index the handler has just written), and under Sequential
\* and RepeatOne with a current index the name it returns is the name of
\* the track that an advance_on_finished following at once selects.
C40_PeekAgreesWithAdvance ==
    [][(/\ last'.op \in {"PlayIndex", "Next", "Prev", "TickFinished"}
        /\ emitted' # <<>>
        /\ emitted'[1].ev = "UpdatePlayingState") =>
            /\ items' = items
            /\ mode' = mode
            /\ current' = emitted'[1].idx
            /\ mode' \in {"Sequential", "RepeatOne"} =>
                \A a \in AdvanceOnFinished(items', current', mode') :
                    /\ a.ret # None
                    /\ emitted'[1].next = Name(Get(items', a.ret))]_vars

\* C40, its case: under RepeatOne on a list of two or more tracks a track is
\* started and the name peeked is the name of that same track.
C40_Witness ==
    /\ last.op \in {"PlayIndex", "Next", "Prev", "TickFinished"}
    /\ emitted # <<>>
    /\ emitted[1].ev = "UpdatePlayingState"
    /\ mode = "RepeatOne"
    /\ Len(items) >= 2
    /\ current # None
    /\ emitted[1].next = Name(Get(items, current))

====
